---- MODULE Spec2Model ----
(***************************************************************************)
(* SSH-MCP connection core.                                                *)
(*                                                                         *)
(*   - the multi-alias connection manager, src/src/ssh/ssh_manager.py      *)
(*     (class SSHManager): connect / disconnect / run_result / file        *)
(*     operations / sync, as asyncio tasks that interleave only at their   *)
(*     await points;                                                       *)
(*   - the idle-session store, src/src/ssh_mcp/session_store.py            *)
(*     (class SessionStore) with its reaper task, over the single-         *)
(*     connection manager of src/src/ssh_mcp/ssh_manager.py.               *)
(*                                                                         *)
(* Text (paths, directories) is a sequence of one-character strings, so    *)
(* that prefix tests and path normalisation are computed as the code       *)
(* computes them.                                                          *)
(***************************************************************************)
EXTENDS Integers, Sequences, FiniteSets, TLC

VARIABLES
    connections,    \* SSHManager.connections : alias -> 0 (no entry), 1 (a handle),
                    \*   2 (a handle on which close() has been called)
    cwds,           \* SSHManager.cwds        : alias -> text (NoCwd = no entry)
    credentials,    \* SSHManager._credentials: alias -> record (NoCreds = no entry)
    primary_alias,  \* SSHManager.primary_alias ("None" = None)
    lock,           \* SSHManager._lock is locked
    alias_locks,    \* SSHManager._alias_locks : alias -> locked
    lock_waiters,   \* per alias lock, the tasks suspended in its acquire(), oldest first
    task,           \* per asyncio task: the coroutine frame of its current call
    sessions,       \* SessionStore._sessions : key -> entry
    store_lock,     \* SessionStore._lock is locked
    store_waiters,  \* the tasks suspended in the store lock's acquire(), oldest first
    running,        \* SessionStore._running
    cleanup_task,   \* SessionStore._cleanup_task (0 = None)
    next_sleep,     \* SessionStore._next_sleep
    now,            \* time.time()
    managers,       \* the SSHManager instances the store has created
    reaper,         \* per reaper task: the frame of _cleanup_loop / _reap
    caller          \* per store caller: the frame of start / stop / get

muxvars == <<connections, cwds, credentials, primary_alias, lock, alias_locks,
             lock_waiters, task>>
storevars == <<sessions, store_lock, store_waiters, running, cleanup_task, next_sleep, now,
               managers, reaper, caller>>
vars == <<connections, cwds, credentials, primary_alias, lock, alias_locks,
          lock_waiters, task,
          sessions, store_lock, store_waiters, running, cleanup_task, next_sleep, now,
          managers, reaper, caller>>

----------------------------------------------------------------------------
(* Bounds of the model *)

\* concurrent asyncio tasks calling into one SSHManager
NumTasks == 2

Tasks == 1..NumTasks
\* the task that calls connect and disconnect: these calls exclude each other
\* (SSHManager._lock), so one caller issues them all; every task calls the
\* operations on aliases
TableTasks == {1}

\* The alias names callers use; "primary" is the default of connect(alias=...).
Aliases == {"a", "primary"}
\* All alias names in the order Python's sorted() puts them.
AliasOrder == <<"a", "primary">>

----------------------------------------------------------------------------
(* Text helpers: Python str operations on sequences of characters *)

startswith(s, p) == Len(p) <= Len(s) /\ SubSeq(s, 1, Len(p)) = p

endswith(s, p) == Len(p) <= Len(s) /\ SubSeq(s, Len(s) - Len(p) + 1, Len(s)) = p

RECURSIVE split_slash(_, _, _)
\* str.split('/'): cur is the component being read, acc the components so far
split_slash(s, cur, acc) ==
    IF s = <<>> THEN Append(acc, cur)
    ELSE IF Head(s) = "/" THEN split_slash(Tail(s), <<>>, Append(acc, cur))
    ELSE split_slash(Tail(s), Append(cur, Head(s)), acc)

RECURSIVE join_slash(_)
\* '/'.join(comps)
join_slash(comps) ==
    IF comps = <<>> THEN <<>>
    ELSE IF Len(comps) = 1 THEN comps[1]
    ELSE comps[1] \o <<"/">> \o join_slash(Tail(comps))

RECURSIVE norm_comps(_, _, _)
\* the component loop of posixpath.normpath
norm_comps(comps, new, initial) ==
    IF comps = <<>> THEN new
    ELSE LET c == Head(comps) IN
         IF c = <<>> \/ c = <<".">> THEN norm_comps(Tail(comps), new, initial)
         ELSE IF \/ c # <<".", ".">>
                 \/ (initial = 0 /\ new = <<>>)
                 \/ (new # <<>> /\ new[Len(new)] = <<".", ".">>)
              THEN norm_comps(Tail(comps), Append(new, c), initial)
         ELSE IF new # <<>>
              THEN norm_comps(Tail(comps), SubSeq(new, 1, Len(new) - 1), initial)
         ELSE norm_comps(Tail(comps), new, initial)

\* posixpath.normpath
normpath(path) ==
    IF path = <<>> THEN <<".">>
    ELSE LET initial == IF ~startswith(path, <<"/">>) THEN 0
                        ELSE IF startswith(path, <<"/", "/">>)
                                /\ ~startswith(path, <<"/", "/", "/">>) THEN 2
                        ELSE 1
             comps == norm_comps(split_slash(path, <<>>, <<>>), <<>>, initial)
             body == join_slash(comps)
             out == (IF initial = 2 THEN <<"/", "/">>
                     ELSE IF initial = 1 THEN <<"/">> ELSE <<>>) \o body
         IN IF out = <<>> THEN <<".">> ELSE out

\* posixpath.join(a, b)
path_join(a, b) ==
    IF startswith(b, <<"/">>) THEN b
    ELSE IF a = <<>> \/ endswith(a, <<"/">>) THEN a \o b
    ELSE a \o <<"/">> \o b

\* os.getcwd() of the server process
getcwd == <<"/">>

\* posixpath.abspath
abspath(path) ==
    IF ~startswith(path, <<"/">>) THEN normpath(path_join(getcwd, path))
    ELSE normpath(path)

\* cwd_delimiter of run_result, one token of the text
cwd_delimiter == "___MCP_CWD_CAPTURE___"

RECURSIVE split_delimiter(_, _, _)
\* str.split(cwd_delimiter): cur is the part being read, acc the parts so far
split_delimiter(s, cur, acc) ==
    IF s = <<>> THEN Append(acc, cur)
    ELSE IF Head(s) = cwd_delimiter THEN split_delimiter(Tail(s), <<>>, Append(acc, cur))
    ELSE split_delimiter(Tail(s), Append(cur, Head(s)), acc)

RECURSIVE lstrip(_)
\* str.lstrip(): the whitespace of the model's texts is the newline
lstrip(s) == IF s # <<>> /\ Head(s) = "\n" THEN lstrip(Tail(s)) ELSE s

RECURSIVE rstrip(_)
\* str.rstrip()
rstrip(s) ==
    IF s # <<>> /\ s[Len(s)] = "\n" THEN rstrip(SubSeq(s, 1, Len(s) - 1)) ELSE s

\* str.strip()
strip(s) == rstrip(lstrip(s))

\* clean_stdout of run_result: the text before the first delimiter, or all of
\* it when there is none
clean_stdout(stdout) == split_delimiter(stdout, <<>>, <<>>)[1]

\* candidate of run_result: the stripped text between the first delimiter and
\* the next, <<>> when there is no delimiter
candidate_of(stdout) ==
    LET parts == split_delimiter(stdout, <<>>, <<>>)
    IN IF Len(parts) > 1 THEN strip(parts[2]) ELSE <<>>

\* what the remote prints for wrapped_command when the command prints out and
\* the final pwd prints dir
shell_stdout(out, dir) == out \o <<cwd_delimiter, "\n">> \o dir \o <<"\n">>

\* wrapped_command on the remote shell: 'cd "{cwd}" && ( {command} ); ...;
\* echo "{cwd_delimiter}"; pwd'. The command runs in a subshell, so the final
\* pwd prints the directory of the cd before it: cwd, and for "." the
\* directory the session starts in
remote_stdout(cwd, home, out) ==
    shell_stdout(out, IF cwd = <<".">> THEN home ELSE cwd)

\* MAX_LEN of execute
MAX_LEN == 4000

RECURSIVE repeat(_, _)
\* the string c * n
repeat(c, n) ==
    IF n = 0 THEN ""
    ELSE IF n % 2 = 0 THEN LET h == repeat(c, n \div 2) IN h \o h
    ELSE c \o repeat(c, n - 1)

RECURSIVE join(_)
\* the string a text of the model stands for: "".join(parts)
join(parts) == IF parts = <<>> THEN "" ELSE Head(parts) \o join(Tail(parts))

RECURSIVE rstrip_str(_)
\* str.rstrip() of a string
rstrip_str(s) ==
    IF Len(s) > 0 /\ SubSeq(s, Len(s), Len(s)) \in {"\n", " "}
    THEN rstrip_str(SubSeq(s, 1, Len(s) - 1)) ELSE s

\* final_output of execute before the cut: '"\n\n".join(output_parts) or
\* "(No output)"'
final_output(stdout, stderr) ==
    LET out == IF stdout # "" THEN <<"STDOUT:\n" \o rstrip_str(stdout)>> ELSE <<>>
        err == IF stderr # "" THEN <<"STDERR:\n" \o rstrip_str(stderr)>> ELSE <<>>
        output_parts == out \o err
    IN IF output_parts = <<>> THEN "(No output)"
       ELSE IF Len(output_parts) = 1 THEN output_parts[1]
       ELSE output_parts[1] \o "\n\n" \o output_parts[2]

\* a cut that leaves no marker
cut_silently(text) ==
    IF Len(text) > MAX_LEN THEN SubSeq(text, 1, MAX_LEN) ELSE text

\* "if len(final_output) > MAX_LEN: final_output = final_output[:MAX_LEN] + ..."
truncate(text) ==
    IF Len(text) > MAX_LEN THEN SubSeq(text, 1, MAX_LEN) \o "\n... [Output truncated]"
    ELSE text

\* what execute returns for the result of run_result
execute_output(stdout, stderr, exit_code) ==
    LET text == truncate(final_output(stdout, stderr))
    IN IF exit_code # 0 THEN text \o "\n\n[Exit Code: " \o ToString(exit_code) \o "]"
       ELSE text

----------------------------------------------------------------------------
(* The connection manager: values *)

\* SSHManager.allowed_root, os.path.abspath(allowed_root) of the constructor
allowed_root == <<"/", "a">>

\* what the remote shell answers to pwd
Dirs == { <<"/", "a">>, <<"/">> }
\* the paths callers pass to the file operations
Paths == { <<"x">>, <<"/", "b">> }

\* the output of the command "cd dir && pwd"
cd_and_pwd(dir) == dir \o <<"\n">>

\* the most characters by which a command's output exceeds MAX_LEN
MaxExcess == 1000

\* the lengths of what a command under execute prints: around the lengths at
\* which final_output reaches MAX_LEN, alone and together with one character
\* of stderr
OutputLens ==
    {0, 1, MAX_LEN - 19, MAX_LEN - 18, MAX_LEN - 9, MAX_LEN - 8, MAX_LEN - 7,
     MAX_LEN + MaxExcess}

\* what a command under execute prints to stdout, with and without a final
\* newline, and to stderr
Outputs ==
    {<<>>} \cup {<<repeat("a", n) \o nl>> : n \in OutputLens \ {0}, nl \in {"", "\n"}}
Errors == {"", "e\n", repeat("e", MAX_LEN + MaxExcess)}
ExitCodes == {0, 127}

\* every text the remote answers with in the specifications
Stdouts ==
    {<<>>}
    \cup {dir \o <<"\n">> : dir \in Dirs}
    \cup {shell_stdout(out, dir) : out \in {<<>>} \cup {cd_and_pwd(d) : d \in Dirs},
                                   dir \in Dirs \cup {<<>>}}
    \cup {shell_stdout(out, <<"/", "a">>) : out \in Outputs}

\* strip, clean_stdout and candidate_of as a table over Stdouts, computed once
parsed ==
    [stdout \in Stdouts |-> [stripped |-> strip(stdout),
                             clean_stdout |-> clean_stdout(stdout),
                             candidate |-> candidate_of(stdout)]]

\* cwds has no entry for the alias
NoCwd == <<"no entry">>
\* _credentials has no entry for the alias
NoCreds == [host |-> "None", username |-> "None", port |-> 0,
            private_key_path |-> "None", password |-> "None", via |-> "None"]

Hosts == {"h1"}
Users == {"u"}
Ports == {22}
KeyPaths == {"None", "/data/id_ed25519"}
Passwords == {"None"}
Vias == Aliases \cup {"None"}

\* SSHManager.system_key_path, and whether the key file exists
system_key_path == "/data/id_ed25519"
system_key_exists == TRUE

FileOps == {"list", "read", "write"}

\* the frame of a task that is not inside a call
IdleTask ==
    [pc |-> "idle", op |-> "none", alias |-> "None", alias2 |-> "None",
     path |-> <<>>, path2 |-> <<>>, retry |-> FALSE,
     stack |-> <<>>, cont |-> "none", frames |-> <<>>, nacq |-> 0,
     todo |-> <<>>,
     netio |-> FALSE, execs |-> 0, res |-> "none", out |-> <<>>,
     source |-> <<>>, written |-> <<>>, total_bytes |-> 0,
     result |-> <<>>,
     next |-> <<>>]

\* the manager's state as one record, so that the code between two awaits
\* composes into one step
Mux == [connections |-> connections, cwds |-> cwds, credentials |-> credentials,
        primary_alias |-> primary_alias, lock |-> lock, alias_locks |-> alias_locks,
        lock_waiters |-> lock_waiters,
        task |-> task]

\* F(S0), with S0 evaluated once: TLC evaluates an operator's argument again at
\* each use, a bound variable once
Once(F(_), S0) == CHOOSE r \in {F(S) : S \in {S0}} : TRUE

Commit(S0) ==
    \E S \in {S0} :
    /\ connections' = S.connections
    /\ cwds' = S.cwds
    /\ credentials' = S.credentials
    /\ primary_alias' = S.primary_alias
    /\ lock' = S.lock
    /\ alias_locks' = S.alias_locks
    /\ lock_waiters' = S.lock_waiters
    /\ task' = S.task

----------------------------------------------------------------------------
(* Locks and the end of a call *)

RECURSIVE release_locks(_, _, _)
\* "for lock in reversed(locks): lock.release()": asyncio.Lock.release()
\* unlocks whoever locked it and raises RuntimeError on an unlocked lock
release_locks(al, locks, i) ==
    IF i = 0 THEN [al |-> al, ok |-> TRUE]
    ELSE IF al[locks[i]]
         THEN release_locks([al EXCEPT ![locks[i]] = FALSE], locks, i - 1)
    ELSE [al |-> al, ok |-> FALSE]

RECURSIVE unwind_frames(_, _, _)
\* the finally blocks of the _alias_lock_ctx frames, innermost first
unwind_frames(al, frames, res) ==
    IF frames = <<>> THEN [al |-> al, res |-> res]
    ELSE LET top == frames[Len(frames)]
             r == release_locks(al, top, Len(top))
         IN unwind_frames(r.al, SubSeq(frames, 1, Len(frames) - 1),
                          IF r.ok THEN res ELSE "RuntimeError")

\* the call of task t ends with res (a return value or the exception raised):
\* every "async with" of the call is left
Finish(S0, t, res) ==
    LET from(S) ==
        LET T == S.task[t]
            u == unwind_frames(S.alias_locks, T.frames, res)
        IN [S EXCEPT !.alias_locks = u.al,
                     !.lock = IF T.op \in {"connect", "disconnect", "disconnect_all"}
                              THEN FALSE ELSE @,
                     !.task[t] = [IdleTask EXCEPT !.pc = "done", !.op = T.op,
                                                  !.alias = T.alias, !.path = T.path,
                                                  !.netio = T.netio,
                                                  !.execs = T.execs,
                                                  !.res = u.res]]
    IN Once(from, S0)

RECURSIVE sorted_names(_, _)
\* sorted(dict.fromkeys(aliases)): each name once, in sorted order
sorted_names(aliases, i) ==
    IF i > Len(AliasOrder) THEN <<>>
    ELSE (IF \E j \in 1..Len(aliases) : aliases[j] = AliasOrder[i]
          THEN <<AliasOrder[i]>> ELSE <<>>) \o sorted_names(aliases, i + 1)

\* list(dict.fromkeys(aliases)): each name once, in argument order
lock_names_unsorted(aliases) ==
    IF Len(aliases) = 2 /\ aliases[1] = aliases[2] THEN <<aliases[1]>> ELSE aliases

\* names = sorted(dict.fromkeys(aliases)) of _alias_lock_ctx
lock_names(aliases) == sorted_names(aliases, 1)

\* cwds.get(alias, ".")
cwd_get(S, alias) == IF S.cwds[alias] = NoCwd THEN <<".">> ELSE S.cwds[alias]

\* the body of _validate_path of a manager whose allowed_root is root, for an
\* alias whose working directory is cwd: the absolute path, and whether it is
\* accepted
validate_root(root, cwd, path) ==
    LET p == IF ~startswith(path, <<"/">>) THEN path_join(cwd, path) ELSE path
        abs_path == abspath(p)
    IN [abs_path |-> abs_path, ok |-> startswith(abs_path, root)]

\* _validate_path of the manager of this model
validate(cwd, path) == validate_root(allowed_root, cwd, path)

\* validate on every working directory and path of the model, computed once
validated == [cwd \in Dirs \cup {<<".">>}, path \in Paths |-> validate(cwd, path)]

\* _validate_path(path, alias)
validate_path(S, path, alias) == validated[cwd_get(S, alias), path]

\* a comparison of the two dicts by identity: new_creds is a fresh dict
creds_same_object(existing, new) == FALSE

\* _creds_equal
creds_equal(existing, new) ==
    /\ existing.host = new.host
    /\ existing.username = new.username
    /\ existing.port = new.port
    /\ existing.private_key_path = new.private_key_path
    /\ existing.password = new.password
    /\ existing.via = new.via

----------------------------------------------------------------------------
(* The connection manager: the code between awaits *)

RECURSIVE alias_lock_ctx(_, _)
RECURSIVE raise_in_connect(_, _)
RECURSIVE resume(_, _)

\* the code of task t goes on in the operator op with the argument arg: a call
\* in tail position, which resume makes
goto(S, t, op, arg) == [S EXCEPT !.task[t].next = <<op, arg>>]

\* "await asyncssh.connect(...)" of the innermost _connect_internal frame
await_connect(S, t) ==
    [S EXCEPT !.task[t].pc = "ci_connect", !.task[t].netio = TRUE]

\* an exception handler of _connect_internal that leaves the table entry of
\* the alias in place
raise_keeping_handle(S0, t) ==
    Finish([S0 EXCEPT !.task[t].stack = <<>>], t, "ConnectionError")

\* an exception inside the try of the innermost _connect_internal frame: its
\* handler drops the alias's table entry and raises ConnectionError, which the
\* frame that awaited it (a jump-host connect, or the operation) receives
raise_in_connect(S0, t) ==
    LET from(S) ==
        LET st == S.task[t].stack
            top == st[Len(st)]
            S1 == [S EXCEPT !.connections[top.alias] = 0,
                            !.task[t].stack = SubSeq(st, 1, Len(st) - 1)]
        IN IF Len(st) > 1 THEN raise_in_connect(S1, t)
           ELSE Finish(S1, t, "ConnectionError")
    IN Once(from, S0)

\* an _ensure_connection that reconnects whether or not credentials are cached
ensure_always_connects(S0, t, alias) ==
    IF S0.connections[alias] # 0 THEN goto(S0, t, "after_ensure", "None")
    ELSE goto(S0, t, "connect_internal", alias)

\* _ensure_connection(alias)
ensure_connection(S0, t, alias) ==
    LET from(S) ==
        IF S.connections[alias] # 0 THEN goto(S, t, "after_ensure", "None")
        ELSE IF S.credentials[alias] # NoCreds THEN goto(S, t, "connect_internal", alias)
        ELSE IF S.task[t].stack # <<>> THEN raise_in_connect(S, t)
        ELSE Finish(S, t, "ConnectionError")
    IN Once(from, S0)

\* _connect_internal(alias) up to its first await. A jump-host chain that
\* comes back to an alias whose frame is still open recurses without end:
\* Python's RecursionError is raised into the innermost open frame.
connect_internal(S0, t, alias) ==
    LET from(S) ==
        LET st == S.task[t].stack IN
        IF \E i \in 1..Len(st) : st[i].alias = alias THEN raise_in_connect(S, t)
        ELSE LET S1 == [S EXCEPT !.task[t].stack =
                                       Append(st, [alias |-> alias, via |-> "None"])]
             IN IF S.connections[alias] # 0
                THEN [S1 EXCEPT !.connections[alias] = 2,
                                !.task[t].pc = "ci_closing", !.task[t].netio = TRUE]
                ELSE goto(S1, t, "connect_try", "None")
    IN Once(from, S0)

\* a _connect_internal that starts the handshake without looking at "via"
connect_without_jump(S0, t) ==
    LET st == S0.task[t].stack
        S1 == [S0 EXCEPT !.task[t].stack = SubSeq(st, 1, Len(st) - 1)]
    IN IF S0.credentials[st[Len(st)].alias] = NoCreds
       THEN IF Len(st) > 1 THEN raise_in_connect(S1, t) ELSE Finish(S1, t, "ValueError")
       ELSE await_connect(S0, t)

\* _connect_internal from "c = self._credentials.get(alias)" to its next await
connect_try(S0, t) ==
    LET from(S) ==
        LET st == S.task[t].stack
            top == st[Len(st)]
            c == S.credentials[top.alias]
        IN IF c = NoCreds
           THEN LET S1 == [S EXCEPT !.task[t].stack = SubSeq(st, 1, Len(st) - 1)]
                IN IF Len(st) > 1 THEN raise_in_connect(S1, t)
                   ELSE Finish(S1, t, "ValueError")
           ELSE IF c.via # "None"
                THEN goto([S EXCEPT !.task[t].stack[Len(st)].via = c.via],
                          t, "ensure_connection", c.via)
           ELSE await_connect(S, t)
    IN Once(from, S0)

\* the return of _ensure_connection to the code that awaited it
after_ensure(S0, t) ==
    LET from(S) ==
        LET st == S.task[t].stack IN
        IF st # <<>>
        THEN IF S.connections[st[Len(st)].via] = 0 THEN raise_in_connect(S, t)
             ELSE await_connect(S, t)
        ELSE goto(S, t, "continue_op", "None")
    IN Once(from, S0)

\* one lock for all aliases
can_acquire_shared(S, name) ==
    \A x \in Aliases : ~S.alias_locks[x] /\ S.lock_waiters[x] = <<>>

\* asyncio.Lock.acquire() returns without suspending: the lock is unlocked and
\* nobody is suspended in its acquire()
can_acquire(S, name) ==
    ~S.alias_locks[name] /\ S.lock_waiters[name] = <<>>

\* _alias_lock_ctx: acquire the remaining locks of the innermost frame in
\* order, suspending at the first one that cannot be acquired at once
alias_lock_ctx(S0, t) ==
    LET from(S) ==
        LET T == S.task[t]
            names == T.frames[Len(T.frames)]
            i == T.nacq + 1
        IN IF i > Len(names)
           THEN goto([S EXCEPT !.task[t].pc = "body",
                               !.task[t].cont = IF T.op = "run" THEN "run"
                                                ELSE IF T.op = "sync" THEN "sync_src"
                                                ELSE "file"],
                     t, "ensure_connection", T.alias)
           ELSE IF can_acquire(S, names[i])
                THEN alias_lock_ctx([S EXCEPT !.alias_locks[names[i]] = TRUE,
                                              !.task[t].pc = "locking",
                                              !.task[t].nacq = i], t)
           ELSE [S EXCEPT !.lock_waiters[names[i]] = Append(@, t),
                          !.task[t].pc = "lock_wait"]
    IN Once(from, S0)

\* the recursive call op(..., retry=False, target=alias) of a retry
retry_call(S0, t) ==
    LET from(S) ==
        goto([S EXCEPT !.task[t].retry = FALSE,
                       !.task[t].frames = Append(@, lock_names(<<S.task[t].alias>>)),
                       !.task[t].nacq = 0], t, "alias_lock_ctx", "None")
    IN Once(from, S0)

\* a primary alias that every connect replaces
primary_always_new(primary, alias) == alias

\* the primary alias after a connect of alias has recorded its handle:
\* "if not self.primary_alias: ... elif alias == "primary": ..."
primary_after_connect(primary, alias) ==
    IF primary = "None" THEN alias
    ELSE IF alias = "primary" THEN "primary" ELSE primary

\* what the operation does once _ensure_connection has returned
continue_op(S0, t) ==
    LET from(S) ==
        LET T == S.task[t] IN
        CASE T.cont = "connect" ->
               Finish([S EXCEPT !.primary_alias = primary_after_connect(@, T.alias)],
                      t, "connected")
          [] T.cont = "run" ->
               IF S.connections[T.alias] = 0 THEN Finish(S, t, "ConnectionError")
               ELSE [S EXCEPT !.task[t].pc = "run_exec",
                              !.task[t].netio = TRUE, !.task[t].execs = @ + 1]
          [] T.cont = "file" ->
               IF ~validate_path(S, T.path, T.alias).ok THEN Finish(S, t, "PermissionError")
               ELSE [S EXCEPT !.task[t].pc = "file_io",
                              !.task[t].netio = TRUE, !.task[t].execs = @ + 1]
          [] T.cont = "retry" -> goto(S, t, "retry_call", "None")
          [] T.cont = "sync_src" ->
               goto([S EXCEPT !.task[t].cont = "sync_dst"], t, "ensure_connection", T.alias2)
          [] T.cont = "sync_dst" ->
               IF S.connections[T.alias] = 0 \/ S.connections[T.alias2] = 0
               THEN Finish(S, t, "KeyError")
               ELSE IF ~validate_path(S, T.path, T.alias).ok
                       \/ ~validate_path(S, T.path2, T.alias2).ok
                    THEN Finish(S, t, "PermissionError")
               ELSE [S EXCEPT !.task[t].pc = "sync_io", !.task[t].netio = TRUE,
                              !.task[t].execs = @ + 1]
    IN Once(from, S0)

\* the code of task t up to its next await or to the end of its call: every
\* pending call is made
resume(S0, t) ==
    LET from(S) ==
        LET op == S.task[t].next[1]
            arg == S.task[t].next[2]
            S1 == [S EXCEPT !.task[t].next = <<>>]
        IN IF S.task[t].next = <<>> THEN S
           ELSE resume(CASE op = "ensure_connection" -> ensure_connection(S1, t, arg)
                         [] op = "connect_internal" -> connect_internal(S1, t, arg)
                         [] op = "connect_try" -> connect_try(S1, t)
                         [] op = "after_ensure" -> after_ensure(S1, t)
                         [] op = "continue_op" -> continue_op(S1, t)
                         [] op = "retry_call" -> retry_call(S1, t)
                         [] op = "alias_lock_ctx" -> alias_lock_ctx(S1, t),
                       t)
    IN Once(from, S0)

\* _resolve_alias ("None" when it raises)
resolve_alias(S, target) ==
    IF target # "None" THEN target ELSE S.primary_alias

----------------------------------------------------------------------------
(* The connection manager: calls *)

\* a task that is not inside a call starts one: its frame
Call(t, op, alias) ==
    [IdleTask EXCEPT !.pc = "call", !.op = op, !.alias = alias]

\* a self-tunnel is never refused
via_never_alias(alias, via) == FALSE

\* "if via == alias" of connect
via_is_alias(alias, via) == via = alias

\* new_creds of connect, with the system key when no key and no password is given
new_creds(host, username, port, private_key_path, password, via) ==
    [host |-> host, username |-> username, port |-> port,
     private_key_path |-> IF private_key_path = "None" /\ password = "None"
                             /\ system_key_exists
                          THEN system_key_path ELSE private_key_path,
     password |-> password, via |-> via]

\* connect(host, username, port, private_key_path, password, alias, via),
\* up to its first await; "async with self._lock" is entered when the lock is free
Connect(t, host, username, port, private_key_path, password, alias, via) ==
    /\ task[t].pc = "idle"
    /\ ~lock
    /\ LET S0 == [Mux EXCEPT !.lock = TRUE, !.task[t] = Call(t, "connect", alias)]
           new == new_creds(host, username, port, private_key_path, password, via)
           existing == credentials[alias]
       IN Commit(IF via_is_alias(alias, via) THEN Finish(S0, t, "ValueError")
                 ELSE IF existing # NoCreds /\ connections[alias] # 0
                         /\ creds_equal(existing, new)
                      THEN Finish(S0, t, "reuse")
                 ELSE resume(connect_internal(
                                 [S0 EXCEPT !.credentials[alias] = new,
                                            !.task[t].cont = "connect"], t, alias), t))
    /\ UNCHANGED storevars

\* disconnect(alias) with an alias, up to its await
Disconnect(t, alias) ==
    /\ task[t].pc = "idle"
    /\ ~lock
    /\ LET S0 == [Mux EXCEPT !.lock = TRUE, !.task[t] = Call(t, "disconnect", alias)]
       IN Commit(IF connections[alias] # 0
                 THEN [S0 EXCEPT !.connections[alias] = 2,
                                 !.task[t].pc = "dc_closing",
                                 !.task[t].netio = TRUE]
                 ELSE Finish(S0, t, "no_active"))
    /\ UNCHANGED storevars

\* disconnect(alias) after "await conn.wait_closed()"; nxt is what
\* next(iter(self.connections), None) yields
DisconnectClosed(t, nxt) ==
    /\ task[t].pc = "dc_closing"
    /\ LET a == task[t].alias
           rest == {x \in Aliases : x # a /\ connections[x] # 0}
       IN /\ IF rest = {} THEN nxt = "None" ELSE nxt \in rest
          /\ Commit(IF connections[a] = 0 THEN Finish(Mux, t, "KeyError")
                    ELSE Finish([Mux EXCEPT !.connections[a] = 0,
                                            !.credentials[a] = NoCreds,
                                            !.primary_alias =
                                                IF @ = a THEN nxt ELSE @],
                                t, "disconnected"))
    /\ UNCHANGED storevars

\* the loop of disconnect() without an alias, from the head of todo to the
\* next await or to the end
disconnect_all_loop(S0, t) ==
    LET from(S) ==
        LET todo == S.task[t].todo IN
        IF todo = <<>>
        THEN Finish([S EXCEPT !.credentials = [x \in Aliases |-> NoCreds],
                              !.primary_alias = "None"], t, "disconnected_all")
        ELSE IF S.connections[Head(todo)] = 0 THEN Finish(S, t, "KeyError")
        ELSE [S EXCEPT !.connections[Head(todo)] = 2,
                       !.task[t].pc = "dca_closing", !.task[t].netio = TRUE]
    IN Once(from, S0)

\* disconnect() without an alias; keys is list(self.connections.keys())
DisconnectAll(t, keys) ==
    /\ task[t].pc = "idle"
    /\ ~lock
    /\ Len(keys) = Cardinality({x \in Aliases : connections[x] # 0})
    /\ \A x \in Aliases : connections[x] # 0 => \E i \in 1..Len(keys) : keys[i] = x
    /\ Commit(disconnect_all_loop(
                  [Mux EXCEPT !.lock = TRUE,
                              !.task[t] = [Call(t, "disconnect_all", "None")
                                              EXCEPT !.todo = keys]], t))
    /\ UNCHANGED storevars

\* disconnect() without an alias, after "await conn.wait_closed()"
DisconnectAllClosed(t) ==
    /\ task[t].pc = "dca_closing"
    /\ LET a == Head(task[t].todo)
       IN Commit(IF connections[a] = 0 THEN Finish(Mux, t, "KeyError")
                 ELSE disconnect_all_loop([Mux EXCEPT !.connections[a] = 0,
                                                      !.task[t].todo = Tail(@)], t))
    /\ UNCHANGED storevars

\* run_result(command, target=target), up to its first await
Run(t, target) ==
    /\ task[t].pc = "idle"
    /\ LET alias == resolve_alias(Mux, target)
           S0 == [Mux EXCEPT !.task[t] = [Call(t, "run", alias) EXCEPT
                                             !.retry = TRUE,
                                             !.frames = <<lock_names(<<alias>>)>>]]
       IN Commit(IF alias = "None" THEN Finish([S0 EXCEPT !.task[t].frames = <<>>],
                                               t, "ConnectionError")
                 ELSE resume(alias_lock_ctx(S0, t), t))
    /\ UNCHANGED storevars

\* list_files / read_file / write_file (path, target=target), up to the first await
FileOp(t, op, path, target) ==
    /\ task[t].pc = "idle"
    /\ LET alias == resolve_alias(Mux, target)
           S0 == [Mux EXCEPT !.task[t] = [Call(t, op, alias) EXCEPT
                                             !.retry = TRUE, !.path = path,
                                             !.frames = <<lock_names(<<alias>>)>>]]
       IN Commit(IF alias = "None" THEN Finish([S0 EXCEPT !.task[t].frames = <<>>],
                                               t, "ConnectionError")
                 ELSE resume(alias_lock_ctx(S0, t), t))
    /\ UNCHANGED storevars

\* sync(source_node, source_path, dest_node, dest_path), up to its first await
Sync(t, source_node, source_path, dest_node, dest_path) ==
    /\ task[t].pc = "idle"
    /\ Commit(resume(alias_lock_ctx(
                  [Mux EXCEPT !.task[t] =
                      [Call(t, "sync", source_node) EXCEPT
                          !.alias2 = dest_node, !.path = source_path,
                          !.path2 = dest_path,
                          !.frames = <<lock_names(<<source_node, dest_node>>)>>]], t), t))
    /\ UNCHANGED storevars

----------------------------------------------------------------------------
(* The connection manager: resumption after an await *)

\* the lock that task t is suspended on
wanted_lock(t) == task[t].frames[Len(task[t].frames)][task[t].nacq + 1]

\* a task suspended in lock.acquire() is woken once the lock is unlocked and no
\* task has waited for it longer; it takes the lock and goes on
AcquireLock(t) ==
    /\ task[t].pc = "lock_wait"
    /\ ~alias_locks[wanted_lock(t)]
    /\ Head(lock_waiters[wanted_lock(t)]) = t
    /\ Commit(resume(alias_lock_ctx(
                  [Mux EXCEPT !.lock_waiters[wanted_lock(t)] = Tail(@),
                              !.alias_locks[wanted_lock(t)] = TRUE,
                              !.task[t].pc = "locking",
                              !.task[t].nacq = @ + 1], t), t))
    /\ UNCHANGED storevars

\* a task suspended in lock.acquire() is cancelled: CancelledError is raised
\* inside the try of _alias_lock_ctx
Cancel(t) ==
    /\ task[t].pc = "lock_wait"
    /\ Commit(Finish([Mux EXCEPT !.lock_waiters[wanted_lock(t)] =
                                     SelectSeq(@, LAMBDA u : u # t)],
                     t, "CancelledError"))
    /\ UNCHANGED storevars

\* _connect_internal after "await self.connections[alias].wait_closed()"
ConnectClosed(t) ==
    /\ task[t].pc = "ci_closing"
    /\ LET st == task[t].stack
       IN Commit(resume(connect_try([Mux EXCEPT !.connections[st[Len(st)].alias] = 0],
                                    t), t))
    /\ UNCHANGED storevars

\* _connect_internal after "await asyncssh.connect(...)": a new handle, or the
\* transport's failure; a handshake through a tunnel succeeds only over a
\* handle that has not been closed
ConnectAnswered(t, ok) ==
    /\ task[t].pc = "ci_connect"
    /\ LET st == task[t].stack
       IN /\ IF ok /\ st[Len(st)].via # "None"
             THEN connections[st[Len(st)].via] = 1 ELSE TRUE
          /\ Commit(IF ok
                    THEN [Mux EXCEPT !.connections[st[Len(st)].alias] = 1,
                                     !.task[t].pc = "ci_pwd"]
                    ELSE raise_in_connect(Mux, t))
    /\ UNCHANGED storevars

\* _connect_internal after "await conn.run('pwd')"; stdout is what pwd printed
PwdAnswered(t, ok, stdout) ==
    /\ task[t].pc = "ci_pwd"
    /\ LET st == task[t].stack
       IN Commit(IF ok
                 THEN resume(after_ensure(
                                 [Mux EXCEPT !.cwds[st[Len(st)].alias] =
                                                 parsed[stdout].stripped,
                                             !.task[t].stack =
                                                 SubSeq(st, 1, Len(st) - 1)], t), t)
                 ELSE raise_in_connect(Mux, t))
    /\ UNCHANGED storevars

\* the except clause for a lost connection, shared by run_result and the file
\* operations: drop the handle, reconnect, call again with retry=False
on_connection_lost(S0, t) ==
    LET from(S) ==
        IF S.task[t].retry
        THEN goto([S EXCEPT !.connections[S.task[t].alias] = 0,
                            !.task[t].cont = "retry"],
                  t, "ensure_connection", S.task[t].alias)
        ELSE Finish(S, t, "ConnectionLost")
    IN Once(from, S0)

\* a run_result that stores the directory text whether or not it is empty
run_output_unguarded(S0, t, stdout) ==
    LET S1 == Finish([S0 EXCEPT !.cwds[S0.task[t].alias] = parsed[stdout].candidate],
                     t, "ok")
    IN [S1 EXCEPT !.task[t].out = IF S1.task[t].res = "ok"
                                  THEN parsed[stdout].clean_stdout ELSE <<>>]

\* run_result from "stdout = self._coerce_text(result.stdout)" to its return
run_output(S0, t, stdout) ==
    LET from(S) ==
        LET candidate == parsed[stdout].candidate
            S1 == Finish([S EXCEPT !.cwds[S.task[t].alias] =
                                       IF candidate # <<>> THEN candidate ELSE @],
                         t, "ok")
        IN [S1 EXCEPT !.task[t].out = IF S1.task[t].res = "ok"
                                      THEN parsed[stdout].clean_stdout ELSE <<>>]
    IN Once(from, S0)

\* run_result after "await asyncio.wait_for(conn.run(wrapped_command), ...)";
\* stdout is the text the command has printed (<<>> when it has not returned)
RunAnswered(t, outcome, stdout) ==
    /\ task[t].pc = "run_exec"
    /\ outcome # "ok" => stdout = <<>>
    /\ Commit(CASE outcome = "ok" -> run_output(Mux, t, stdout)
                [] outcome = "lost" -> resume(on_connection_lost(Mux, t), t)
                [] outcome = "timeout" -> Finish(Mux, t, "TimeoutError")
                [] outcome = "error" -> Finish(Mux, t, "RuntimeError"))
    /\ UNCHANGED storevars

\* execute: "res = await self.run_result(command, retry=retry, target=target)"
Execute(t, target) == Run(t, target)

\* execute after conn.run has returned inside its run_result: stdout, stderr
\* and exit_code are the result's; run_result returns res (stdout, stderr and
\* exit_code of its dict) and execute formats it
ExecuteAnswered(t, stdout, stderr, exit_code) ==
    /\ task[t].pc = "run_exec"
    /\ LET S1 == run_output(Mux, t, stdout)
           res == <<join(S1.task[t].out), stderr, exit_code>>
       IN Commit(IF S1.task[t].res = "ok"
                 THEN [S1 EXCEPT !.task[t].result = res,
                                 !.task[t].out = execute_output(res[1], res[2], res[3])]
                 ELSE S1)
    /\ UNCHANGED storevars

\* a file operation after its transfer over the sftp channel
FileAnswered(t, outcome) ==
    /\ task[t].pc = "file_io"
    /\ Commit(CASE outcome = "ok" -> Finish(Mux, t, "ok")
                [] outcome = "lost" -> resume(on_connection_lost(Mux, t), t)
                [] outcome = "error" -> Finish(Mux, t, "SFTPError"))
    /\ UNCHANGED storevars

\* CHUNK_SIZE of sync, the most bytes one read returns
CHUNK_SIZE == 65536

\* the longest chunk a read returns in the model, and the longest source file
MaxChunk == 2
MaxFileLen == 3

\* the values of a byte
Bytes == {0, 1}

\* the chunks a read of the source can return
Chunks == UNION {[1..n -> Bytes] : n \in 1..MaxChunk}

\* a count of the chunks, not of their bytes
count_chunks(total_bytes, data) == total_bytes + 1

\* "total_bytes += len(data)" of sync
count_bytes(total_bytes, data) == total_bytes + Len(data)

\* sync: "data = await f_src.read(CHUNK_SIZE)" returns a chunk that is not
\* empty and "await f_dest.write(data)" writes it
SyncChunk(t, data) ==
    /\ task[t].pc = "sync_io"
    /\ data # <<>> /\ Len(data) <= CHUNK_SIZE
    /\ Len(task[t].source) + Len(data) <= MaxFileLen
    /\ Commit([Mux EXCEPT !.task[t].source = @ \o data,
                          !.task[t].written = @ \o data,
                          !.task[t].total_bytes = count_bytes(@, data)])
    /\ UNCHANGED storevars

\* sync: the read returns no data (the source is exhausted) and sync returns
\* the byte count, or a read or write fails and sync raises the wrapped failure
SyncAnswered(t, ok) ==
    /\ task[t].pc = "sync_io"
    /\ LET T == task[t]
           S1 == Finish(Mux, t, IF ok THEN "ok" ELSE "RuntimeError")
       IN Commit([S1 EXCEPT !.task[t].source = T.source,
                            !.task[t].written = T.written,
                            !.task[t].total_bytes = T.total_bytes])
    /\ UNCHANGED storevars

\* the caller has the result of its call
Return(t) ==
    /\ task[t].pc = "done"
    /\ task' = [task EXCEPT ![t] = IdleTask]
    /\ UNCHANGED <<connections, cwds, credentials, primary_alias, lock, alias_locks,
                   lock_waiters>>
    /\ UNCHANGED storevars

----------------------------------------------------------------------------
(* The session store: values *)

\* the session keys callers use
Keys == {"k1", "k2"}

\* concurrent asyncio tasks calling start, stop and get
NumCallers == 3
Callers == 1..NumCallers

\* the reaper tasks that start() can create
MaxReapers == 2
Reapers == 1..MaxReapers

\* the SSHManager instances that get() can create
MaxManagers == 2
Managers == 1..MaxManagers

\* the last second of the clock
MaxTime == 31

\* SessionStore(timeout_seconds=5): the idle timeout, in seconds
timeout == 5
\* the first value of SessionStore._next_sleep
initial_sleep == 30
\* the least and the greatest next sleep of _reap, and what it adds to the
\* time until the next expiry
min_sleep == 5
max_sleep == 60
expiry_margin == 1
\* float('inf')
inf == 999

Max(a, b) == IF a >= b THEN a ELSE b
Min(a, b) == IF a <= b THEN a ELSE b

\* a slot for an SSHManager that has not been created
NoManager == [made |-> FALSE, conn |-> 0, creds |-> FALSE, locked |-> FALSE]
\* SSHManager() of ssh_mcp: conn is 0 (None), 1 (a live handle) or 2 (a handle
\* on which close() has been called); locked is SSHManager._lock
NewManager == [made |-> TRUE, conn |-> 0, creds |-> FALSE, locked |-> FALSE]

\* a reaper task that has not been created
NoReaper == [pc |-> "none", wake |-> 0, now0 |-> 0, to_remove |-> <<>>,
             next_expiry |-> inf, manager |-> 0, cancel |-> FALSE]
\* a reaper task that has ended
DoneReaper == [NoReaper EXCEPT !.pc = "done"]

\* the frame of a caller that is not inside a call
IdleCaller == [pc |-> "idle", op |-> "none", key |-> "None", manager |-> 0,
               awaits |-> 0, todo |-> <<>>, res |-> "none"]

\* the store's state as one record (the clock apart)
Store == [sessions |-> sessions, store_lock |-> store_lock,
          store_waiters |-> store_waiters, running |-> running,
          cleanup_task |-> cleanup_task, next_sleep |-> next_sleep,
          managers |-> managers, reaper |-> reaper, caller |-> caller]

CommitStore(S0) ==
    \E S \in {S0} :
    /\ sessions' = S.sessions
    /\ store_lock' = S.store_lock
    /\ store_waiters' = S.store_waiters
    /\ running' = S.running
    /\ cleanup_task' = S.cleanup_task
    /\ next_sleep' = S.next_sleep
    /\ managers' = S.managers
    /\ reaper' = S.reaper
    /\ caller' = S.caller
    /\ now' = now

\* key in self._sessions
has_key(ss, key) == \E i \in 1..Len(ss) : ss[i].key = key

\* self._sessions[key]
entry_of(ss, key) == ss[CHOOSE i \in 1..Len(ss) : ss[i].key = key]

\* SessionEntry.touch at time t
touch(ss, key, t) ==
    [i \in 1..Len(ss) |-> IF ss[i].key = key
                          THEN [ss[i] EXCEPT !.last_accessed = t] ELSE ss[i]]

\* self._sessions.pop(key)
pop(ss, key) == SelectSeq(ss, LAMBDA e : e.key # key)

\* asyncio.Lock.acquire() of the store lock returns without suspending
can_lock(S) == ~S.store_lock /\ S.store_waiters = <<>>

\* SSHManager.disconnect of ssh_mcp up to its await: the credentials are
\* cleared, a handle is closed and awaited with the manager's lock held
disconnect_begin(M) ==
    [M EXCEPT !.creds = FALSE, !.conn = IF @ = 0 THEN 0 ELSE 2,
              !.locked = (M.conn # 0)]

\* SSHManager.disconnect of ssh_mcp after "await self.conn.wait_closed()"
disconnect_end(M, ok) ==
    [M EXCEPT !.conn = IF ok THEN 0 ELSE @, !.locked = FALSE]

----------------------------------------------------------------------------
(* The session store: the reaper *)

RECURSIVE reap_next(_, _)

\* "while self._running" of _cleanup_loop: the next sleep, or the end of the task
cleanup_loop(S0, r) ==
    LET from(S) ==
        IF S.running
        THEN [S EXCEPT !.reaper[r] = [NoReaper EXCEPT !.pc = "sleeping",
                                                      !.wake = now + S.next_sleep]]
        ELSE [S EXCEPT !.reaper[r] = DoneReaper]
    IN Once(from, S0)

\* the end of _reap: the adaptive sleep interval
reap_end(S0, r) ==
    LET from(S) ==
        LET next_expiry == S.reaper[r].next_expiry
        IN cleanup_loop(
               [S EXCEPT !.next_sleep =
                    IF next_expiry = inf THEN max_sleep
                    ELSE Max(min_sleep, Min(next_expiry + expiry_margin, max_sleep))],
               r)
    IN Once(from, S0)

\* "age > self._timeout" of the first pass
expired(now0, entry) == (now0 - entry.last_accessed) > timeout

\* the removal without the second look at the timestamp
not_rechecked(now0, entry) == TRUE

\* "(now - self._sessions[key].last_accessed) > self._timeout" of the removal
still_expired(now0, entry) == (now0 - entry.last_accessed) > timeout

\* a recheck that keeps the store lock while the manager disconnects
reap_recheck_locked(S0, r) ==
    LET from(S) ==
        LET R == S.reaper[r]
            key == Head(R.to_remove)
            S1 == [S EXCEPT !.reaper[r].to_remove = Tail(@)]
        IN IF has_key(S.sessions, key)
              /\ still_expired(R.now0, entry_of(S.sessions, key))
           THEN LET m == entry_of(S.sessions, key).manager
                    S2 == [S1 EXCEPT !.sessions = pop(@, key),
                                     !.managers[m] = disconnect_begin(@)]
                IN IF S.managers[m].conn # 0
                   THEN [S2 EXCEPT !.reaper[r].pc = "disconnecting",
                                   !.reaper[r].manager = m,
                                   !.store_lock = TRUE]
                   ELSE reap_next(S2, r)
           ELSE reap_next(S1, r)
    IN Once(from, S0)

\* the removal of the head of to_remove with the store lock held, and, when the
\* entry was removed, manager.disconnect() up to its await
reap_recheck(S0, r) ==
    LET from(S) ==
        LET R == S.reaper[r]
            key == Head(R.to_remove)
            S1 == [S EXCEPT !.reaper[r].to_remove = Tail(@)]
        IN IF has_key(S.sessions, key)
              /\ still_expired(R.now0, entry_of(S.sessions, key))
           THEN LET m == entry_of(S.sessions, key).manager
                    S2 == [S1 EXCEPT !.sessions = pop(@, key),
                                     !.managers[m] = disconnect_begin(@)]
                IN IF S.managers[m].conn # 0
                   THEN [S2 EXCEPT !.reaper[r].pc = "disconnecting",
                                   !.reaper[r].manager = m]
                   ELSE reap_next(S2, r)
           ELSE reap_next(S1, r)
    IN Once(from, S0)

\* "for key in to_remove" from the head of to_remove to the next suspension
reap_next(S0, r) ==
    LET from(S) ==
        IF S.reaper[r].to_remove = <<>> THEN reap_end(S, r)
        ELSE IF can_lock(S) THEN reap_recheck(S, r)
        ELSE [S EXCEPT !.store_waiters = Append(@, <<"reaper", r>>),
                       !.reaper[r].pc = "recheck_wait"]
    IN Once(from, S0)

\* the keys of the expired entries of ss from the i-th on, in the order of the dict
RECURSIVE keys_where(_, _, _)
keys_where(ss, now0, i) ==
    IF i > Len(ss) THEN <<>>
    ELSE (IF expired(now0, ss[i]) THEN <<ss[i].key>> ELSE <<>>)
         \o keys_where(ss, now0, i + 1)

\* the first pass of _reap with the store lock held: the expired keys and the
\* least time until a remaining entry expires
reap_scan(S0, r) ==
    LET from(S) ==
        LET now0 == S.reaper[r].now0
            ss == S.sessions
            left == {timeout - (now0 - ss[i].last_accessed) :
                         i \in {j \in 1..Len(ss) : ~expired(now0, ss[j])}}
        IN reap_next([S EXCEPT !.reaper[r].to_remove = keys_where(ss, now0, 1),
                               !.reaper[r].next_expiry =
                                   IF left = {} THEN inf
                                   ELSE CHOOSE x \in left : \A y \in left : x <= y],
                     r)
    IN Once(from, S0)

\* the task begins to run _cleanup_loop; a task cancelled before that never runs
ReaperBegin(r) ==
    /\ reaper[r].pc = "created"
    /\ CommitStore(IF reaper[r].cancel
                   THEN [Store EXCEPT !.reaper[r] = DoneReaper]
                   ELSE cleanup_loop(Store, r))
    /\ UNCHANGED muxvars

\* "await asyncio.sleep(self._next_sleep)" returns and _reap starts
ReaperWake(r) ==
    /\ reaper[r].pc = "sleeping"
    /\ ~reaper[r].cancel
    /\ now >= reaper[r].wake
    /\ LET S1 == [Store EXCEPT !.reaper[r].now0 = now, !.reaper[r].wake = 0]
       IN CommitStore(IF can_lock(S1) THEN reap_scan(S1, r)
                      ELSE [S1 EXCEPT !.store_waiters = Append(@, <<"reaper", r>>),
                                      !.reaper[r].pc = "scan_wait"])
    /\ UNCHANGED muxvars

\* a reaper suspended in the store lock's acquire() gets the lock
ReaperAcquire(r) ==
    /\ reaper[r].pc \in {"scan_wait", "recheck_wait"}
    /\ ~reaper[r].cancel
    /\ ~store_lock
    /\ Head(store_waiters) = <<"reaper", r>>
    /\ LET S1 == [Store EXCEPT !.store_waiters = Tail(@)]
       IN CommitStore(IF reaper[r].pc = "scan_wait" THEN reap_scan(S1, r)
                      ELSE reap_recheck(S1, r))
    /\ UNCHANGED muxvars

\* a reaper whose sweep ends with the first disconnect that fails
ReaperDisconnectedStops(r, ok) ==
    /\ reaper[r].pc = "disconnecting"
    /\ ~reaper[r].cancel
    /\ LET m == reaper[r].manager
           S1 == [Store EXCEPT !.managers[m] = disconnect_end(@, ok),
                               !.reaper[r].manager = 0]
       IN CommitStore(IF ok THEN reap_next(S1, r)
                      ELSE cleanup_loop([S1 EXCEPT !.reaper[r].to_remove = <<>>], r))
    /\ UNCHANGED muxvars

\* "await manager.disconnect()" of _reap ends; an exception is logged
ReaperDisconnected(r, ok) ==
    /\ reaper[r].pc = "disconnecting"
    /\ ~reaper[r].cancel
    /\ LET m == reaper[r].manager
       IN CommitStore(reap_next([Store EXCEPT !.managers[m] = disconnect_end(@, ok),
                                              !.reaper[r].manager = 0], r))
    /\ UNCHANGED muxvars

\* CancelledError is raised at the await the reaper is suspended in, and
\* _cleanup_loop breaks
ReaperCancelled(r) ==
    /\ reaper[r].pc \in {"sleeping", "scan_wait", "recheck_wait", "disconnecting"}
    /\ reaper[r].cancel
    /\ LET m == reaper[r].manager
       IN CommitStore([Store EXCEPT
              !.store_waiters = SelectSeq(@, LAMBDA w : w # <<"reaper", r>>),
              !.managers = IF m = 0 THEN @ ELSE [@ EXCEPT ![m].locked = FALSE],
              !.reaper[r] = DoneReaper])
    /\ UNCHANGED muxvars

----------------------------------------------------------------------------
(* The session store: start, stop and get *)

RECURSIVE stop_next(_, _)

\* the call of caller c returns res (a value, or the exception raised)
finish_call(S0, c, res) ==
    LET from(S) ==
        [S EXCEPT !.caller[c] = [IdleCaller EXCEPT !.pc = "done",
                                                   !.op = S.caller[c].op,
                                                   !.key = S.caller[c].key,
                                                   !.manager = S.caller[c].manager,
                                                   !.res = res]]
    IN Once(from, S0)

\* caller c suspends in the store lock's acquire()
wait_lock(S, c, pc) ==
    [S EXCEPT !.store_waiters = Append(@, <<"caller", c>>), !.caller[c].pc = pc]

\* the SSHManager slots not yet used
unmade(ms) == {m \in Managers : ~ms[m].made}

\* the reaper task slots not yet used
uncreated(rs) == {r \in Reapers : rs[r].pc = "none"}

\* a start() that does not look at _running
start_unguarded(S0, c) ==
    LET r == CHOOSE x \in uncreated(S0.reaper) : \A y \in uncreated(S0.reaper) : x <= y
    IN finish_call([S0 EXCEPT !.running = TRUE,
                              !.cleanup_task = r,
                              !.reaper[r].pc = "created"], c, "None")

\* start() with the store lock held
start_locked(S0, c) ==
    LET from(S) ==
        IF S.running THEN finish_call(S, c, "None")
        ELSE LET r == CHOOSE x \in uncreated(S.reaper) :
                          \A y \in uncreated(S.reaper) : x <= y
             IN finish_call([S EXCEPT !.running = TRUE,
                                      !.cleanup_task = r,
                                      !.reaper[r].pc = "created"], c, "None")
    IN Once(from, S0)

\* start()
Start(c) ==
    /\ caller[c].pc = "idle"
    /\ Cardinality(uncreated(reaper))
           > Cardinality({d \in Callers : caller[d].pc = "start_wait"})
    /\ LET S1 == [Store EXCEPT !.caller[c] = [IdleCaller EXCEPT !.pc = "call",
                                                                !.op = "start"]]
       IN CommitStore(IF can_lock(S1) THEN start_locked(S1, c)
                      ELSE wait_lock(S1, c, "start_wait"))
    /\ UNCHANGED muxvars

\* stop(): "for key, entry in self._sessions.items(): await
\* entry.manager.disconnect()" from the head of todo to the next suspension,
\* and the clearing of the map
stop_next(S0, c) ==
    LET from(S) ==
        LET todo == S.caller[c].todo IN
        IF todo = <<>>
        THEN finish_call([S EXCEPT !.sessions = <<>>, !.store_lock = FALSE], c, "None")
        ELSE LET m == Head(todo)
                 S1 == [S EXCEPT !.managers[m] = disconnect_begin(@)]
             IN IF S.managers[m].conn # 0
                THEN [S1 EXCEPT !.caller[c].pc = "stop_disconnecting"]
                ELSE stop_next([S1 EXCEPT !.caller[c].todo = Tail(@)], c)
    IN Once(from, S0)

\* stop() from its second "async with self._lock", the lock acquired
stop_clear(S0, c) ==
    LET from(S) ==
        stop_next([S EXCEPT !.store_lock = TRUE,
                            !.caller[c].awaits = 0,
                            !.caller[c].todo =
                                [i \in 1..Len(S.sessions) |-> S.sessions[i].manager]],
                  c)
    IN Once(from, S0)

\* stop() after the reaper task has ended
stop_close(S0, c) ==
    LET from(S) ==
        IF can_lock(S) THEN stop_clear(S, c) ELSE wait_lock(S, c, "clear_wait")
    IN Once(from, S0)

\* stop() with the store lock held the first time, up to its next suspension
stop_locked(S0, c) ==
    LET from(S) ==
        IF ~S.running THEN finish_call(S, c, "None")
        ELSE LET r == S.cleanup_task
                 S1 == [S EXCEPT !.running = FALSE]
             IN IF r = 0 THEN stop_close(S1, c)
                ELSE IF S1.reaper[r].pc = "done" THEN stop_close(S1, c)
                ELSE [S1 EXCEPT !.reaper[r].cancel = TRUE,
                                !.caller[c].pc = "await_task",
                                !.caller[c].awaits = r]
    IN Once(from, S0)

\* stop()
Stop(c) ==
    /\ caller[c].pc = "idle"
    /\ LET S1 == [Store EXCEPT !.caller[c] = [IdleCaller EXCEPT !.pc = "call",
                                                                !.op = "stop"]]
       IN CommitStore(IF can_lock(S1) THEN stop_locked(S1, c)
                      ELSE wait_lock(S1, c, "stop_wait"))
    /\ UNCHANGED muxvars

\* "await self._cleanup_task" of stop() returns: the reaper task has ended
StopAwaited(c) ==
    /\ caller[c].pc = "await_task"
    /\ reaper[caller[c].awaits].pc = "done"
    /\ CommitStore(stop_close(Store, c))
    /\ UNCHANGED muxvars

\* "await entry.manager.disconnect()" of stop() ends; an exception leaves stop()
StopDisconnected(c, ok) ==
    /\ caller[c].pc = "stop_disconnecting"
    /\ LET m == Head(caller[c].todo)
           S1 == [Store EXCEPT !.managers[m] = disconnect_end(@, ok)]
       IN CommitStore(IF ok THEN stop_next([S1 EXCEPT !.caller[c].todo = Tail(@)], c)
                      ELSE finish_call([S1 EXCEPT !.store_lock = FALSE], c, "Exception"))
    /\ UNCHANGED muxvars

\* get(key) with the store lock held and no second look: the key gets a new
\* entry with a manager that no entry of the store holds
get_unchecked(S0, c) ==
    LET key == S0.caller[c].key
        held == {S0.sessions[i].manager : i \in 1..Len(S0.sessions)}
        m == CHOOSE x \in Managers \ held : \A y \in Managers \ held : x <= y
        entry == [key |-> key, manager |-> m, last_accessed |-> now]
    IN finish_call([S0 EXCEPT !.managers[m] = NewManager,
                              !.sessions =
                                  IF has_key(@, key)
                                  THEN [i \in 1..Len(@) |->
                                           IF @[i].key = key THEN entry ELSE @[i]]
                                  ELSE Append(@, entry),
                              !.caller[c].manager = m],
                   c, "manager")

\* get(key) with the store lock held: the second look, and the new entry
get_locked(S0, c) ==
    LET from(S) ==
        LET key == S.caller[c].key IN
        IF has_key(S.sessions, key)
        THEN finish_call([S EXCEPT !.sessions = touch(@, key, now),
                                   !.caller[c].manager =
                                       entry_of(S.sessions, key).manager],
                         c, "manager")
        ELSE LET m == CHOOSE x \in unmade(S.managers) :
                          \A y \in unmade(S.managers) : x <= y
             IN finish_call([S EXCEPT !.managers[m] = NewManager,
                                      !.sessions =
                                          Append(@, [key |-> key, manager |-> m,
                                                     last_accessed |-> now]),
                                      !.caller[c].manager = m],
                            c, "manager")
    IN Once(from, S0)

\* get(key) without the store lock: the entry found at the first look
get_fast(S0, c) ==
    LET key == S0.caller[c].key
    IN finish_call([S0 EXCEPT !.sessions = touch(@, key, now),
                              !.caller[c].manager = entry_of(S0.sessions, key).manager],
                   c, "manager")

\* get(key): the fast path without the lock, else the slow path
Get(c, key) ==
    /\ caller[c].pc = "idle"
    /\ \/ has_key(sessions, key)
       \/ Cardinality(unmade(managers))
              >= Cardinality({key} \cup {caller[d].key :
                                            d \in {e \in Callers : caller[e].pc = "get_wait"}})
    /\ LET S1 == [Store EXCEPT !.caller[c] = [IdleCaller EXCEPT !.pc = "call",
                                                                !.op = "get",
                                                                !.key = key]]
       IN CommitStore(IF has_key(sessions, key) THEN get_fast(S1, c)
                      ELSE IF can_lock(S1) THEN get_locked(S1, c)
                      ELSE wait_lock(S1, c, "get_wait"))
    /\ UNCHANGED muxvars

\* a caller suspended in the store lock's acquire() gets the lock
CallerAcquire(c) ==
    /\ caller[c].pc \in {"start_wait", "stop_wait", "clear_wait", "get_wait"}
    /\ ~store_lock
    /\ Head(store_waiters) = <<"caller", c>>
    /\ LET S1 == [Store EXCEPT !.store_waiters = Tail(@)]
       IN CommitStore(CASE caller[c].pc = "start_wait" -> start_locked(S1, c)
                        [] caller[c].pc = "stop_wait" -> stop_locked(S1, c)
                        [] caller[c].pc = "clear_wait" -> stop_clear(S1, c)
                        [] caller[c].pc = "get_wait" -> get_locked(S1, c))
    /\ UNCHANGED muxvars

\* the caller that holds the manager returned by get() connects it
ManagerConnect(c) ==
    /\ caller[c].pc = "done"
    /\ caller[c].op = "get"
    /\ LET m == caller[c].manager
       IN /\ ~managers[m].locked
          /\ managers[m].conn = 0
          /\ CommitStore([Store EXCEPT !.managers[m].conn = 1,
                                       !.managers[m].creds = TRUE])
    /\ UNCHANGED muxvars

\* the caller takes the result of its call
ReturnCaller(c) ==
    /\ caller[c].pc = "done"
    /\ CommitStore([Store EXCEPT !.caller[c] = IdleCaller])
    /\ UNCHANGED muxvars

\* a second passes; a sleep that is over returns before the next second does
Tick ==
    /\ now < MaxTime
    /\ \A r \in Reapers :
           ~(reaper[r].pc = "sleeping" /\ ~reaper[r].cancel /\ reaper[r].wake <= now)
    /\ now' = now + 1
    /\ UNCHANGED <<sessions, store_lock, store_waiters, running, cleanup_task,
                   next_sleep, managers, reaper, caller>>
    /\ UNCHANGED muxvars

StoreInit ==
    /\ sessions = <<>>
    /\ store_lock = FALSE
    /\ store_waiters = <<>>
    /\ running = FALSE
    /\ cleanup_task = 0
    /\ next_sleep = initial_sleep
    /\ now = 0
    /\ managers = [m \in Managers |-> NoManager]
    /\ reaper = [r \in Reapers |-> NoReaper]
    /\ caller = [c \in Callers |-> IdleCaller]

----------------------------------------------------------------------------
(* The connection manager: specification *)

MuxInit ==
    /\ connections = [a \in Aliases |-> 0]
    /\ cwds = [a \in Aliases |-> NoCwd]
    /\ credentials = [a \in Aliases |-> NoCreds]
    /\ primary_alias = "None"
    /\ lock = FALSE
    /\ alias_locks = [a \in Aliases |-> FALSE]
    /\ lock_waiters = [a \in Aliases |-> <<>>]
    /\ task = [t \in Tasks |-> IdleTask]

\* the roots a manager is constructed with, after os.path.abspath
Roots == { <<"/">>, <<"/", "a">>, <<"/", "a", "/", "b">> }
\* the working directories tracked for an alias, "." when there is no entry
Cwds == Dirs \cup { <<".">>, <<"/", "a", "b">> }
\* paths with "..", and paths to a directory whose name begins with the name
\* of a root
ConfinePaths ==
    Paths \cup { <<"/", "a", "b">>, <<"a", "b">>, <<".", ".">>,
                 <<".", ".", "/", "a", "b">>,
                 <<"/", "a", "/", ".", ".", "/", "a", "b">>,
                 <<"/", "a", "/", "x">> }

\* _validate_path(path, alias) on a manager constructed with allowed_root =
\* root, with cwd tracked for the alias: the call returns abs_path or raises
\* PermissionError
ValidatePath(t, root, cwd, path) ==
    /\ task[t].pc = "idle"
    /\ LET v == validate_root(root, cwd, path)
       IN task' = [task EXCEPT ![t] =
                      [IdleTask EXCEPT !.pc = "done", !.op = "validate_path",
                                       !.path = path,
                                       !.res = IF v.ok THEN "ok" ELSE "PermissionError",
                                       !.result = <<root, cwd, path, v.abs_path>>]]
    /\ UNCHANGED <<connections, cwds, credentials, primary_alias, lock, alias_locks,
                   lock_waiters>>
    /\ UNCHANGED storevars

Init == MuxInit /\ StoreInit

\* every list a dict with these keys can enumerate its keys as
KeyLists == UNION {[1..n -> Aliases] : n \in 0..Cardinality(Aliases)}

\* connect / disconnect, called and resumed, with the remote answering pwd
\* with a directory of dirs
TableStep(t, dirs) ==
    \/ \E host \in Hosts, username \in Users, port \in Ports,
          private_key_path \in KeyPaths, password \in Passwords,
          alias \in Aliases, via \in Vias :
           Connect(t, host, username, port, private_key_path, password, alias, via)
    \/ \E alias \in Aliases : Disconnect(t, alias)
    \/ \E nxt \in Vias : DisconnectClosed(t, nxt)
    \/ \E keys \in KeyLists : DisconnectAll(t, keys)
    \/ DisconnectAllClosed(t)
    \/ ConnectClosed(t)

\* _connect_internal resumed, inside connect or inside a reconnect
ConnectStep(t, dirs) ==
    \/ \E ok \in BOOLEAN : ConnectAnswered(t, ok)
    \/ \E ok \in BOOLEAN, dir \in dirs : PwdAnswered(t, ok, dir \o <<"\n">>)

\* run_result, called and resumed
RunStep(t, dirs) ==
    \/ \E target \in Vias : Run(t, target)
    \/ \E outcome \in {"ok", "lost", "timeout", "error"},
          stdout \in {<<>>} \cup {shell_stdout(<<>>, dir) : dir \in dirs \cup {<<>>}} :
           RunAnswered(t, outcome, stdout)

\* the directory the remote answers in the specification of the table
HomeDirs == { <<"/", "a">> }

Next ==
    \/ \E t \in TableTasks : TableStep(t, HomeDirs)
    \/ \E t \in Tasks :
        \/ RunStep(t, HomeDirs)
        \/ AcquireLock(t)
        \/ Cancel(t)
        \/ ConnectStep(t, HomeDirs)
        \/ Return(t)

\* connect, disconnect and run_result from concurrent tasks
Spec == Init /\ [][Next]_vars

\* connect without a jump host and disconnect(alias), called and resumed
DirectTableStep(t) ==
    \/ \E host \in Hosts, username \in Users, port \in Ports,
          private_key_path \in KeyPaths, password \in Passwords, alias \in Aliases :
           Connect(t, host, username, port, private_key_path, password, alias, "None")
    \/ \E alias \in Aliases : Disconnect(t, alias)
    \/ \E nxt \in Vias : DisconnectClosed(t, nxt)

\* list_files / read_file / write_file, called and resumed
FileStep(t) ==
    \/ \E op \in FileOps, path \in Paths, target \in Vias : FileOp(t, op, path, target)
    \/ \E outcome \in {"ok", "lost", "error"} : FileAnswered(t, outcome)

FileNext ==
    \/ \E t \in TableTasks : DirectTableStep(t)
    \/ \E t \in Tasks \ TableTasks :
        \/ FileStep(t)
        \/ RunStep(t, Dirs)
    \/ \E t \in Tasks :
        \/ ConnectStep(t, Dirs)
        \/ Return(t)

\* the file operations and run_result of the other tasks, while one task
\* connects (without a jump host) and disconnects
FileSpec == Init /\ [][FileNext]_vars

RunNext ==
    \/ \E t \in TableTasks : DirectTableStep(t)
    \/ \E t \in Tasks :
        \/ RunStep(t, HomeDirs)
        \/ AcquireLock(t)
        \/ Cancel(t)
        \/ ConnectStep(t, HomeDirs)
        \/ Return(t)

\* what the event loop does for a task inside a call: every await of the call
\* is answered (by the transport, or by the lock waking its waiter)
Progress(t) ==
    \/ AcquireLock(t)
    \/ \E nxt \in Vias : DisconnectClosed(t, nxt)
    \/ ConnectStep(t, HomeDirs)
    \/ \E outcome \in {"ok", "lost", "timeout", "error"},
          stdout \in {<<>>} \cup {shell_stdout(<<>>, dir) : dir \in HomeDirs \cup {<<>>}} :
           RunAnswered(t, outcome, stdout)
    \/ Return(t)

\* run_result from concurrent tasks on aliases connected without a jump host,
\* with the event loop's guarantee that an answered await resumes its task
RunFairSpec ==
    /\ Init /\ [][RunNext]_vars
    /\ \A t \in Tasks : WF_vars(Progress(t))

\* sync of one path between two aliases, called and resumed
SyncStep(t) ==
    \/ \E src \in Aliases, dst \in Aliases, path \in Paths : Sync(t, src, path, dst, path)
    \/ \E ok \in BOOLEAN : SyncAnswered(t, ok)

SyncNext ==
    \/ \E t \in TableTasks : DirectTableStep(t)
    \/ \E t \in Tasks :
        \/ SyncStep(t)
        \/ AcquireLock(t)
        \/ ConnectStep(t, HomeDirs)
        \/ Return(t)

SyncProgress(t) ==
    \/ AcquireLock(t)
    \/ \E nxt \in Vias : DisconnectClosed(t, nxt)
    \/ ConnectStep(t, HomeDirs)
    \/ \E ok \in BOOLEAN : SyncAnswered(t, ok)
    \/ Return(t)

\* sync from concurrent tasks on aliases connected without a jump host, with
\* the event loop's guarantees (as in RunFairSpec)
SyncFairSpec ==
    /\ Init /\ [][SyncNext]_vars
    /\ \A t \in Tasks : WF_vars(SyncProgress(t))

SyncCancelNext ==
    \/ SyncNext
    \/ \E t \in Tasks : Cancel(t)

\* sync from concurrent tasks whose callers may cancel them while they wait
\* for an alias lock
SyncCancelSpec == Init /\ [][SyncCancelNext]_vars

MixedNext ==
    \/ \E t \in TableTasks : DirectTableStep(t)
    \/ \E t \in Tasks :
        \/ RunStep(t, HomeDirs)
        \/ \E op \in FileOps, target \in Vias : FileOp(t, op, <<"x">>, target)
        \/ \E outcome \in {"ok", "lost", "error"} : FileAnswered(t, outcome)
        \/ \E src \in Aliases, dst \in Aliases : Sync(t, src, <<"x">>, dst, <<"x">>)
        \/ \E ok \in BOOLEAN : SyncAnswered(t, ok)
        \/ AcquireLock(t)
        \/ ConnectStep(t, HomeDirs)
        \/ Return(t)

\* run_result, the file operations and sync from concurrent tasks, as
\* bulk_run and its siblings start them with asyncio.gather
MixedSpec == Init /\ [][MixedNext]_vars

ExecuteNext ==
    \/ \E t \in TableTasks : DirectTableStep(t)
    \/ \E t \in Tasks \ TableTasks :
        \/ \E target \in Vias : Execute(t, target)
        \/ \E out \in Outputs, stderr \in Errors, exit_code \in ExitCodes :
               ExecuteAnswered(t, shell_stdout(out, <<"/", "a">>), stderr, exit_code)
        \/ \E outcome \in {"lost", "timeout", "error"} : RunAnswered(t, outcome, <<>>)
    \/ \E t \in Tasks :
        \/ ConnectStep(t, HomeDirs)
        \/ Return(t)

\* execute on commands whose output is about as long as MAX_LEN, while one
\* task connects (without a jump host) and disconnects
ExecuteSpec == Init /\ [][ExecuteNext]_vars

ConfineNext ==
    \E t \in Tasks :
        \/ \E root \in Roots, cwd \in Cwds, path \in ConfinePaths :
               ValidatePath(t, root, cwd, path)
        \/ Return(t)

\* the confinement check alone, on every root, working directory and path
ConfineSpec == Init /\ [][ConfineNext]_vars

\* run_result called, and resumed with what the remote shell prints for the
\* command "cd dir && pwd" run from the tracked cwd
CwdRunStep(t) ==
    \/ \E target \in Vias : Run(t, target)
    \/ \E dir \in Dirs, home \in Dirs :
           RunAnswered(t, "ok", remote_stdout(cwd_get(Mux, task[t].alias), home,
                                              cd_and_pwd(dir)))
    \/ \E outcome \in {"lost", "timeout", "error"} : RunAnswered(t, outcome, <<>>)

CwdNext ==
    \/ \E t \in TableTasks : DirectTableStep(t)
    \/ \E t \in Tasks \ TableTasks :
        \/ CwdRunStep(t)
        \/ FileStep(t)
    \/ \E t \in Tasks :
        \/ ConnectStep(t, Dirs)
        \/ Return(t)

\* run_result of commands that change directory, and the file operations,
\* against the remote shell
CwdSpec == Init /\ [][CwdNext]_vars

FileFairNext ==
    \/ \E t \in TableTasks : DirectTableStep(t)
    \/ \E t \in Tasks :
        \/ FileStep(t)
        \/ AcquireLock(t)
        \/ ConnectStep(t, HomeDirs)
        \/ Return(t)

FileProgress(t) ==
    \/ AcquireLock(t)
    \/ \E nxt \in Vias : DisconnectClosed(t, nxt)
    \/ ConnectStep(t, HomeDirs)
    \/ \E outcome \in {"ok", "lost", "error"} : FileAnswered(t, outcome)
    \/ Return(t)

\* the file operations from concurrent tasks on aliases connected without a
\* jump host, with the event loop's guarantees (as in RunFairSpec)
FileFairSpec ==
    /\ Init /\ [][FileFairNext]_vars
    /\ \A t \in Tasks : WF_vars(FileProgress(t))

\* sync called and resumed chunk by chunk
SyncCopyStep(t) ==
    \/ \E src \in Aliases, dst \in Aliases, path \in Paths : Sync(t, src, path, dst, path)
    \/ \E data \in Chunks : SyncChunk(t, data)
    \/ \E ok \in BOOLEAN : SyncAnswered(t, ok)

SyncCopyNext ==
    \/ \E t \in TableTasks : DirectTableStep(t)
    \/ \E t \in Tasks \ TableTasks : SyncCopyStep(t)
    \/ \E t \in Tasks :
        \/ ConnectStep(t, HomeDirs)
        \/ Return(t)

\* the chunk loop of sync, for source files of up to MaxFileLen bytes read in
\* chunks of up to MaxChunk bytes
SyncCopySpec == Init /\ [][SyncCopyNext]_vars

----------------------------------------------------------------------------
(* The session store: specification *)

\* the callers that call start and stop; the others call get and use the
\* manager it returns
LifecycleCallers == {1}

\* the caller of get in the specification with the clock
SessionCallers == {2}

\* the seconds at which callers make their calls
CallTimes == {0, 4, 25, 30}

LifecycleStep(c) ==
    \/ now \in CallTimes /\ (Start(c) \/ Stop(c))
    \/ StopAwaited(c)
    \/ \E ok \in BOOLEAN : StopDisconnected(c, ok)
    \/ CallerAcquire(c)
    \/ ReturnCaller(c)

SessionStep(c) ==
    \/ now \in CallTimes /\ \E key \in Keys : Get(c, key)
    \/ CallerAcquire(c)
    \/ ManagerConnect(c)
    \/ ReturnCaller(c)

ReaperStep(r) ==
    \/ ReaperBegin(r)
    \/ ReaperWake(r)
    \/ \E ok \in BOOLEAN : ReaperDisconnected(r, ok)
    \/ ReaperCancelled(r)

StoreNext ==
    \/ \E c \in LifecycleCallers : LifecycleStep(c)
    \/ \E c \in SessionCallers : SessionStep(c)
    \/ \E r \in Reapers : ReaperStep(r)
    \/ Tick

\* the session store with one caller of start and stop, a caller of get, the
\* reaper tasks and the clock
StoreSpec == Init /\ [][StoreNext]_vars

\* the reaper up to its sleep, and its cancellation
ReaperStartStep(r) ==
    \/ ReaperBegin(r)
    \/ ReaperCancelled(r)

\* get from concurrent callers, start and stop from one
\* caller, at second 0: the reaper sleeps
GetNext ==
    \/ \E c \in LifecycleCallers : LifecycleStep(c)
    \/ \E c \in Callers \ LifecycleCallers : SessionStep(c)
    \/ \E r \in Reapers : ReaperStartStep(r)

GetSpec == Init /\ [][GetNext]_vars

\* the callers of start and stop in the specification of the lifecycle
StartStopCallers == {1, 2}

\* start and stop from concurrent callers, get from another, at second 0: the
\* reaper tasks sleep
LifecycleNext ==
    \/ \E c \in StartStopCallers : LifecycleStep(c)
    \/ \E c \in Callers \ StartStopCallers : SessionStep(c)
    \/ \E r \in Reapers : ReaperStartStep(r)

LifecycleSpec == Init /\ [][LifecycleNext]_vars

----------------------------------------------------------------------------
(* Claims *)

\* the run_result call of task t had its first attempt answered "connection
\* lost" and has reconnected: it is in its second call, run_result(retry=False)
InRetryCall(t) ==
    /\ task[t].op = "run"
    /\ task[t].pc \notin {"idle", "done"}
    /\ Len(task[t].frames) = 2

\* C1: a run whose first attempt reports the connection lost reconnects once,
\* executes the command one more time and returns: the call completes.
C1_RetriedRunCompletes ==
    \A t \in Tasks : InRetryCall(t) ~> (task[t].pc = "done")

\* this step ends the call of task t
JustDone(t) == task[t].pc # "done" /\ task'[t].pc = "done"

\* C2: a list, read or write whose path resolves outside the root fails with
\* a permission error and has performed no network I/O (on an alias that has
\* cached credentials: one without fails as not connected).
C2_EscapeFailsWithoutNetwork ==
    [][\A t \in Tasks :
          (/\ JustDone(t)
           /\ task'[t].op \in FileOps
           /\ task'[t].alias \in Aliases
           /\ credentials[task'[t].alias] # NoCreds
           /\ ~validate_path([cwds |-> cwds'], task'[t].path, task'[t].alias).ok)
          => (task'[t].res = "PermissionError" /\ ~task'[t].netio)]_vars

\* the place of an alias name in sorted order
Rank(a) == CHOOSE i \in 1..Len(AliasOrder) : AliasOrder[i] = a

\* the locks the sync of task t takes are its two aliases, each once, in
\* sorted order whatever the argument order
SyncLocksInOrder(t) ==
    (task[t].op = "sync" /\ task[t].pc \notin {"idle", "done"}) =>
        LET names == task[t].frames[1]
        IN /\ {names[i] : i \in 1..Len(names)} = {task[t].alias, task[t].alias2}
           /\ \A i, j \in 1..Len(names) : i < j => Rank(names[i]) < Rank(names[j])

\* C3: every sync takes its alias locks in sorted order without duplicates,
\* and concurrent syncs (also with swapped endpoints) all complete.
C3_SyncsCompleteInLockOrder ==
    /\ [](\A t \in Tasks : SyncLocksInOrder(t))
    /\ \A t \in Tasks :
           (task[t].op = "sync" /\ task[t].pc # "done") ~> (task[t].pc = "done")

\* sync(a -> primary) holds both locks while sync(primary -> a) waits for the
\* first of them
C3_Witness ==
    \E t, u \in Tasks :
        /\ task[t].op = "sync" /\ task[t].alias = "a" /\ task[t].alias2 = "primary"
        /\ task[t].pc = "sync_io"
        /\ task[u].op = "sync" /\ task[u].alias = "primary" /\ task[u].alias2 = "a"
        /\ task[u].pc = "lock_wait" /\ task[u].nacq = 0

\* the operation of task t holds the lock of alias a: it is inside the body of
\* "async with self._alias_lock_ctx(...)" of a call that named a
InCriticalSection(t, a) ==
    /\ task[t].op \in FileOps \cup {"run", "sync"}
    /\ task[t].pc \notin {"idle", "done"}
    /\ task[t].frames # <<>>
    /\ \E i \in 1..Len(task[t].frames[1]) : task[t].frames[1][i] = a
    /\ Len(task[t].frames) > 1 \/ task[t].nacq = Len(task[t].frames[1])

\* C4: at any time at most one run, list, read, write or sync is inside its
\* critical section for a given alias.
C4_OneOperationPerAlias ==
    \A a \in Aliases : \A t, u \in Tasks :
        (InCriticalSection(t, a) /\ InCriticalSection(u, a)) => t = u

\* this step is the start of a connect call of task t for alias
CallsConnect(t, alias) ==
    task[t].pc = "idle" /\ task'[t].op = "connect" /\ task'[t].alias = alias

\* C8: a connect whose credentials equal the ones cached for an alias with a
\* live handle makes no handshake, changes neither the handle, the tracked
\* cwd, the credential cache nor the primary alias, and returns the reuse message.
C8_SameCredentialsReuse ==
    [][\A t \in Tasks, host \in Hosts, username \in Users, port \in Ports,
          private_key_path \in KeyPaths, password \in Passwords,
          alias \in Aliases, via \in Vias :
          (/\ CallsConnect(t, alias)
           /\ connections[alias] # 0
           /\ credentials[alias] =
                  new_creds(host, username, port, private_key_path, password, via)
           /\ Connect(t, host, username, port, private_key_path, password, alias, via))
          => (/\ task'[t].pc = "done"
              /\ task'[t].res = "reuse"
              /\ ~task'[t].netio
              /\ UNCHANGED <<connections, cwds, credentials, primary_alias>>)]_vars

\* a connect has returned the reuse message for an alias with a live handle
C8_Witness ==
    \E t \in Tasks :
        /\ task[t].pc = "done" /\ task[t].op = "connect" /\ task[t].res = "reuse"
        /\ connections[task[t].alias] = 1

\* C9: a connect whose via is its own alias fails with an input error before
\* any network activity and changes neither the credential cache, the
\* connection table nor the primary alias.
C9_SelfTunnelRefused ==
    [][\A t \in Tasks, host \in Hosts, username \in Users, port \in Ports,
          private_key_path \in KeyPaths, password \in Passwords,
          alias \in Aliases :
          (/\ CallsConnect(t, alias)
           /\ Connect(t, host, username, port, private_key_path, password, alias, alias))
          => (/\ task'[t].pc = "done"
              /\ task'[t].res = "ValueError"
              /\ ~task'[t].netio
              /\ UNCHANGED <<connections, credentials, primary_alias>>)]_vars

\* a connect through its own alias has failed while another alias is connected
C9_Witness ==
    \E t \in Tasks :
        /\ task[t].pc = "done" /\ task[t].op = "connect" /\ task[t].res = "ValueError"
        /\ \E a \in Aliases : connections[a] = 1 /\ credentials[a] # NoCreds

\* C10: when disconnect(alias) returns, the alias has neither a live handle
\* nor cached credentials.
C10_DisconnectForgetsAlias ==
    [][\A t \in Tasks :
          (/\ JustDone(t)
           /\ task'[t].op = "disconnect"
           /\ task'[t].res \in {"disconnected", "no_active"})
          => (/\ connections'[task'[t].alias] = 0
              /\ credentials'[task'[t].alias] = NoCreds)]_vars

\* the second at which the sleep of reaper r began
SleepBegan(r) == reaper[r].wake - next_sleep

\* C5: with the reaper running, an entry that has not been touched for longer
\* than the idle timeout is removed: with timeout 5 an entry last touched at
\* second 0 is gone by about second 6.
C5_IdleEntryGone ==
    \A i \in 1..Len(sessions) :
        (/\ running
         /\ cleanup_task # 0
         /\ reaper[cleanup_task].pc = "sleeping"
         /\ SleepBegan(cleanup_task) <= sessions[i].last_accessed)
        => now - sessions[i].last_accessed <= timeout + 1

\* this step is a step of the sweep of reaper r
ReaperMoved(r) ==
    /\ reaper[r].pc \in {"sleeping", "scan_wait", "recheck_wait", "disconnecting"}
    /\ reaper'[r].pc # reaper[r].pc \/ reaper'[r].to_remove # reaper[r].to_remove

\* C6: the reaper removes only entries whose last access is older than the
\* idle timeout; an entry touched after the scan stays in the store and its
\* manager is left as it is.
C6_ReaperKeepsTouchedEntries ==
    [][\A r \in Reapers : \A i \in 1..Len(sessions) :
          ReaperMoved(r) =>
              IF has_key(sessions', sessions[i].key)
              THEN managers'[sessions[i].manager] = managers[sessions[i].manager]
              ELSE now - sessions[i].last_accessed > timeout]_vars

\* a sweep has listed an entry for removal and, while the reaper disconnects
\* an earlier one, a get has touched it; its manager is connected
C6_Witness ==
    \E r \in Reapers : \E i \in 1..Len(sessions) :
        /\ reaper[r].pc = "disconnecting"
        /\ \E j \in 1..Len(reaper[r].to_remove) :
               reaper[r].to_remove[j] = sessions[i].key
        /\ sessions[i].last_accessed >= reaper[r].now0
        /\ managers[sessions[i].manager].conn = 1

\* C7: when stop() returns, no reaper task is left, the session map is empty
\* and every manager that was in the map is disconnected.
C7_StopLeavesNothing ==
    [][\A c \in Callers :
          (/\ caller[c].pc # "done" /\ caller'[c].pc = "done"
           /\ caller'[c].op = "stop" /\ caller'[c].res = "None")
          => (/\ sessions' = <<>>
              /\ \A r \in Reapers : reaper'[r].pc \in {"none", "done"}
              /\ \A i \in 1..Len(sessions) :
                     managers'[sessions[i].manager].conn = 0)]_vars

\* C11: disconnect(alias) never fails: when the call ends, its result is the
\* "disconnected" or the "no active connection" message, never an exception,
\* also when a concurrent operation has discarded the alias's handle.
C11_DisconnectNeverFails ==
    [][\A t \in Tasks :
          (JustDone(t) /\ task'[t].op = "disconnect")
          => task'[t].res \in {"disconnected", "no_active"}]_vars

\* C12: when disconnect() without an alias returns, no alias has a live
\* handle or cached credentials and there is no primary alias.
C12_DisconnectAllForgetsAll ==
    [][\A t \in Tasks :
          (/\ JustDone(t)
           /\ task'[t].op = "disconnect_all"
           /\ task'[t].res = "disconnected_all")
          => (/\ \A a \in Aliases : connections'[a] = 0 /\ credentials'[a] = NoCreds
              /\ primary_alias' = "None")]_vars

\* task t is inside a connect call
InConnect(t) == task[t].op = "connect" /\ task[t].pc \notin {"idle", "done"}

\* this step is the transport's failure (of the handshake or of pwd) in the
\* outermost _connect_internal of the connect call of task t
ConnectFails(t) ==
    /\ InConnect(t)
    /\ Len(task[t].stack) = 1
    /\ \/ ConnectAnswered(t, FALSE)
       \/ \E dir \in HomeDirs : PwdAnswered(t, FALSE, dir \o <<"\n">>)

\* C13: a connect that fails in network setup or authentication ends at once
\* (no second attempt) with a connection error, the alias has no live handle
\* and the credentials the call cached are still cached; a later run on the
\* alias starts a handshake with them.
C13_FailedConnectKeepsCredentials ==
    /\ [][\A t \in Tasks, host \in Hosts, username \in Users, port \in Ports,
             private_key_path \in KeyPaths, password \in Passwords,
             alias \in Aliases, via \in Vias :
             (/\ CallsConnect(t, alias)
              /\ Connect(t, host, username, port, private_key_path, password, alias, via)
              /\ task'[t].pc # "done")
             => credentials'[alias] =
                    new_creds(host, username, port, private_key_path, password, via)]_vars
    /\ [][\A t \in Tasks :
             InConnect(t) =>
                 /\ credentials'[task[t].alias] = credentials[task[t].alias]
                 /\ ConnectFails(t) =>
                        /\ task'[t].pc = "done"
                        /\ task'[t].res = "ConnectionError"
                        /\ connections'[task[t].alias] = 0
                        /\ credentials'[task[t].alias] # NoCreds]_vars
    /\ [][\A t \in Tasks, a \in Aliases :
             (/\ task[t].pc = "idle"
              /\ connections[a] = 0
              /\ credentials[a] # NoCreds
              /\ credentials[a].via = "None"
              /\ can_acquire(Mux, a)
              /\ Run(t, a))
             => task'[t].pc = "ci_connect"]_vars

\* a connect has failed after network activity: the alias has no handle and
\* its credentials are cached
C13_Witness ==
    \E t \in Tasks :
        /\ task[t].pc = "done" /\ task[t].op = "connect"
        /\ task[t].res = "ConnectionError"
        /\ task[t].netio
        /\ connections[task[t].alias] = 0
        /\ credentials[task[t].alias] # NoCreds

\* this step takes the run or file operation of task t into the body of its
\* "async with self._alias_lock_ctx([alias])", or ends it before (no target)
EntersBody(t) ==
    /\ task'[t].op \in FileOps \cup {"run"}
    /\ \/ task[t].pc = "idle" /\ task'[t].pc \notin {"idle", "lock_wait"}
       \/ task[t].pc = "lock_wait" /\ Len(task[t].frames) = 1 /\ AcquireLock(t)

\* C14: a run or file operation with no target and no primary alias, or on an
\* alias with neither a live handle nor cached credentials, fails at once with
\* a connection error, without network activity and without changing the
\* connection table, the credential cache, the primary alias or the tracked cwds.
C14_NotConnectedFailsAtOnce ==
    [][\A t \in Tasks :
          (/\ EntersBody(t)
           /\ \/ task'[t].alias = "None"
              \/ /\ task'[t].alias \in Aliases
                 /\ connections[task'[t].alias] = 0
                 /\ credentials[task'[t].alias] = NoCreds)
          => (/\ task'[t].pc = "done"
              /\ task'[t].res = "ConnectionError"
              /\ ~task'[t].netio
              /\ UNCHANGED <<connections, cwds, credentials, primary_alias>>)]_vars

\* a file operation on an alias without handle and credentials has failed
\* while another alias is connected
C14_Witness ==
    \E t \in Tasks :
        /\ task[t].pc = "done" /\ task[t].op \in FileOps
        /\ task[t].res = "ConnectionError" /\ ~task[t].netio
        /\ task[t].alias \in Aliases
        /\ connections[task[t].alias] = 0 /\ credentials[task[t].alias] = NoCreds
        /\ \E a \in Aliases : connections[a] = 1

\* C15: a run whose command exceeds the deadline fails with a timeout error,
\* is not executed again and starts no reconnect, leaves the alias's handle
\* and tracked cwd as they are, and leaves the alias lock released.
C15_TimeoutFailsOnce ==
    [][\A t \in Tasks :
          (task[t].pc = "run_exec" /\ RunAnswered(t, "timeout", <<>>))
          => (/\ task'[t].pc = "done"
              /\ task'[t].res = "TimeoutError"
              /\ task'[t].execs = task[t].execs
              /\ connections'[task[t].alias] = connections[task[t].alias]
              /\ cwds'[task[t].alias] = cwds[task[t].alias]
              /\ ~alias_locks'[task[t].alias])]_vars

\* the file operation of task t had its first attempt answered "connection
\* lost" and has reconnected: it is in its second call, op(retry=False)
InFileRetry(t) ==
    /\ task[t].op \in FileOps
    /\ task[t].pc \notin {"idle", "done"}
    /\ Len(task[t].frames) = 2

\* C16: a list, read or write whose first attempt reports the connection lost
\* reconnects once, runs the operation one more time and returns the second
\* attempt's result or failure: the call completes.
C16_RetriedFileOpCompletes ==
    \A t \in Tasks : InFileRetry(t) ~> (task[t].pc = "done")

\* this step is the return of the command "cd dir && pwd" of task t
RunsCdPwd(t, dir) ==
    /\ task[t].pc = "run_exec"
    /\ \E home \in Dirs :
           RunAnswered(t, "ok", remote_stdout(cwd_get(Mux, task[t].alias), home,
                                              cd_and_pwd(dir)))

\* C17: after run("cd dir && pwd") on a connected alias (its tracked cwd is
\* what pwd answered at connect, or after an earlier run) the tracked cwd is dir, the
\* caller gets the command's output without the sentinel and the directory
\* line, and a read of "x" resolves to dir/x.
C17_TrackedCwdFollowsCd ==
    [][\A t \in Tasks, dir \in Dirs :
          (/\ task[t].pc = "run_exec"
           /\ cwds[task[t].alias] # NoCwd
           /\ RunsCdPwd(t, dir)
           /\ task'[t].res = "ok")
          => (/\ cwds'[task[t].alias] = dir
              /\ task'[t].out = cd_and_pwd(dir)
              /\ validate_path([cwds |-> cwds'], <<"x">>, task[t].alias).abs_path
                     = path_join(dir, <<"x">>))]_vars

\* C18: a sync that returns reports as many bytes as the source held and has
\* written to the destination the source's chunks in the order it read them.
C18_SyncCountsBytes ==
    [][\A t \in Tasks :
          (JustDone(t) /\ task'[t].op = "sync" /\ task'[t].res = "ok")
          => (/\ task'[t].total_bytes = Len(task'[t].source)
              /\ task'[t].written = task'[t].source)]_vars

\* a sync of a source of MaxFileLen bytes has returned
C18_Witness ==
    \E t \in Tasks :
        /\ task[t].pc = "done" /\ task[t].op = "sync" /\ task[t].res = "ok"
        /\ Len(task[t].source) = MaxFileLen
        /\ task[t].total_bytes = MaxFileLen

\* this step ends the get of caller c
GetReturns(c) ==
    caller[c].pc # "done" /\ caller'[c].pc = "done" /\ caller'[c].op = "get"

\* C19: get(key) returns the manager of the key's entry: the one already in
\* the store when there is an entry (also for a get that waited for the lock
\* while another get created it), else one new manager; and no manager is
\* mapped to two session keys.
C19_OneManagerPerKey ==
    /\ [](\A i, j \in 1..Len(sessions) :
              (sessions[i].key = sessions[j].key
               \/ sessions[i].manager = sessions[j].manager) => i = j)
    /\ [][\A c \in Callers :
             GetReturns(c) =>
                 LET key == caller'[c].key IN
                 /\ has_key(sessions', key)
                 /\ caller'[c].manager = entry_of(sessions', key).manager
                 /\ IF has_key(sessions, key)
                    THEN /\ entry_of(sessions', key).manager
                                = entry_of(sessions, key).manager
                         /\ unmade(managers') = unmade(managers)
                    ELSE /\ caller'[c].manager \in unmade(managers)
                         /\ unmade(managers') = unmade(managers) \ {caller'[c].manager}
                 /\ \A i \in 1..Len(sessions) : has_key(sessions', sessions[i].key)]_vars

\* a get has created the entry of a key while another get for the same key
\* waits for the store lock
C19_Witness ==
    \E c, d \in Callers :
        /\ c # d
        /\ caller[c].pc = "done" /\ caller[c].op = "get"
        /\ caller[d].pc = "get_wait" /\ caller[d].key = caller[c].key
        /\ has_key(sessions, caller[c].key)
        /\ entry_of(sessions, caller[c].key).manager = caller[c].manager

\* the reaper tasks that have been created and have not ended
ReaperTasks == {r \in Reapers : reaper[r].pc \notin {"none", "done"}}

\* C20: at most one reaper task exists at any time.
C20_OneReaperTask == Cardinality(ReaperTasks) <= 1

\* C20, amended: a start() while the store is running launches nothing; at
\* most one reaper task that has not been cancelled exists at any time; and a
\* cancelled reaper task ends at its next step without touching the sessions.
C20_OneLiveReaper ==
    /\ [](Cardinality({r \in ReaperTasks : ~reaper[r].cancel}) <= 1)
    /\ [][\A c \in Callers :
             (/\ caller[c].pc \in {"idle", "start_wait"}
              /\ caller'[c].pc = "done" /\ caller'[c].op = "start"
              /\ running)
             => UNCHANGED <<reaper, cleanup_task, running>>]_vars
    /\ [][\A r \in Reapers :
             (reaper[r].cancel /\ reaper'[r] # reaper[r])
             => (reaper'[r].pc = "done" /\ sessions' = sessions)]_vars

\* a start() has created a second reaper task while the first, cancelled by
\* stop(), has not yet ended
C20_Witness ==
    \E r, q \in Reapers :
        /\ r # q
        /\ reaper[r].pc = "sleeping" /\ reaper[r].cancel
        /\ reaper[q].pc = "created" /\ ~reaper[q].cancel
        /\ running


\* this step ends the disconnect(alias) of task t, which has closed the handle
\* of the primary alias
PrimaryDisconnected(t) ==
    /\ task[t].pc = "dc_closing"
    /\ primary_alias = task[t].alias
    /\ \E nxt \in Aliases \cup {"None"} : DisconnectClosed(t, nxt)

\* C21: when the disconnect of the primary alias ends, the primary alias is an
\* alias that is still in the connection table if there is one and none
\* otherwise; it is never the alias that was disconnected.
C21_PrimaryMovesOnDisconnect ==
    [][\A t \in Tasks :
          PrimaryDisconnected(t)
          => LET rest == {x \in Aliases \ {task[t].alias} : connections'[x] # 0}
             IN /\ primary_alias' # task[t].alias
                /\ rest # {} => primary_alias' \in rest
                /\ rest = {} => primary_alias' = "None"]_vars


\* this step is a step of task t in a connect call, the call itself included
ConnectActs(t) ==
    \/ task[t].pc = "idle" /\ task'[t].op = "connect"
    \/ InConnect(t) /\ task'[t] # task[t]

\* C22: the step that ends a connect with a recorded handle makes the alias
\* the primary alias if there was none or if the alias is "primary" and leaves
\* it unchanged otherwise; every other step of a connect call, the one that
\* ends it with a failure included, leaves the primary alias unchanged.
C22_PrimaryAfterConnect ==
    [][\A t \in Tasks :
          ConnectActs(t)
          => IF task'[t].pc = "done" /\ task'[t].res = "connected"
             THEN primary_alias' =
                      IF primary_alias = "None" \/ task'[t].alias = "primary"
                      THEN task'[t].alias ELSE primary_alias
             ELSE primary_alias' = primary_alias]_vars

\* a connect of an alias not named "primary" has succeeded while another alias
\* was the primary alias, which it still is
C22_Witness ==
    \E t \in Tasks :
        /\ task[t].pc = "done" /\ task[t].op = "connect"
        /\ task[t].res = "connected"
        /\ task[t].alias # "primary"
        /\ primary_alias \notin {"None", task[t].alias}


\* this step is the transport's failure (of the handshake or of pwd) while the
\* connect call of task t reconnects a jump alias
JumpFails(t) ==
    /\ InConnect(t)
    /\ Len(task[t].stack) > 1
    /\ \/ ConnectAnswered(t, FALSE)
       \/ \E dir \in HomeDirs : PwdAnswered(t, FALSE, dir \o <<"\n">>)

\* this step of the connect call of task t starts a handshake
StartsHandshake(t) ==
    /\ ConnectActs(t)
    /\ task'[t].pc = "ci_connect"
    /\ task[t].pc = "ci_connect" => task'[t].stack # task[t].stack

\* C23: a connect through a jump alias that has no handle fails at once with a
\* connection error when the jump alias has no credentials and starts the
\* handshake of the jump alias when it has; a handshake of a connect call
\* whose credentials name a jump alias starts only while that alias has a live
\* handle; when the reconnect of a jump alias fails the connect ends with a
\* connection error; in the failures the new alias has no handle.
C23_ConnectThroughJump ==
    /\ [][\A t \in Tasks, host \in Hosts, username \in Users, port \in Ports,
             private_key_path \in KeyPaths, password \in Passwords,
             alias \in Aliases, via \in Aliases :
             (/\ CallsConnect(t, alias)
              /\ via # alias
              /\ connections[alias] = 0
              /\ connections[via] = 0
              /\ Connect(t, host, username, port, private_key_path, password, alias, via))
             => IF credentials[via] = NoCreds
                THEN /\ task'[t].pc = "done"
                     /\ task'[t].res = "ConnectionError"
                     /\ connections'[alias] = 0
                ELSE credentials[via].via = "None"
                     => /\ task'[t].pc = "ci_connect"
                        /\ task'[t].stack[Len(task'[t].stack)].alias = via
                        /\ connections'[alias] = 0]_vars
    /\ [][\A t \in Tasks :
             StartsHandshake(t)
             => LET st == task'[t].stack
                    c == credentials'[st[Len(st)].alias]
                IN c.via # "None" => connections'[c.via] = 1]_vars
    /\ [][\A t \in Tasks :
             JumpFails(t)
             => /\ task'[t].pc = "done"
                /\ task'[t].res = "ConnectionError"
                /\ connections'[task[t].alias] = 0]_vars

\* a connect call has reconnected its jump alias, whose pwd is pending, before
\* any handshake of the new alias
C23_Witness ==
    \E t \in Tasks :
        /\ task[t].op = "connect" /\ task[t].pc = "ci_pwd"
        /\ Len(task[t].stack) = 2
        /\ task[t].stack[1].alias = task[t].alias
        /\ task[t].stack[1].via = task[t].stack[2].alias
        /\ connections[task[t].stack[2].alias] = 1
        /\ connections[task[t].alias] = 0


\* C24: a sync whose transfer fails ends at once with the wrapped failure: the
\* transfer is not started again, no handle is dropped or reopened, and both
\* alias locks are released.
C24_SyncFailsOnce ==
    [][\A t \in Tasks :
          (task[t].pc = "sync_io" /\ SyncAnswered(t, FALSE))
          => (/\ task'[t].pc = "done"
              /\ task'[t].res = "RuntimeError"
              /\ task'[t].execs = task[t].execs
              /\ connections' = connections
              /\ ~alias_locks'[task[t].alias]
              /\ ~alias_locks'[task[t].alias2])]_vars


\* task u has acquired the lock of alias a and not released it
HoldsAliasLock(u, a) ==
    /\ task[u].pc \notin {"idle", "done"}
    /\ \E f \in 1..Len(task[u].frames) :
           \E i \in 1..(IF f = Len(task[u].frames) THEN task[u].nacq
                        ELSE Len(task[u].frames[f])) :
               task[u].frames[f][i] = a

\* the aliases the operation of task u names
NamedAliases(u) ==
    IF task[u].op = "sync" THEN {task[u].alias, task[u].alias2} ELSE {task[u].alias}

\* task u is inside a run, a file operation or a sync
InOperation(u) ==
    /\ task[u].op \in FileOps \cup {"run", "sync"}
    /\ task[u].pc \notin {"idle", "done"}

\* C25: a run or file operation waits only for the lock of its own alias, and
\* every task that holds that lock is in an operation that names the alias; a
\* run or file operation called while no operation that names its alias is in
\* flight enters its body without waiting, whatever holds the other locks.
C25_DifferentAliasesIndependent ==
    /\ [](\A t \in Tasks :
             (task[t].op \in FileOps \cup {"run"} /\ task[t].pc = "lock_wait")
             => /\ wanted_lock(t) = task[t].alias
                /\ \A u \in Tasks :
                       HoldsAliasLock(u, task[t].alias)
                       => task[t].alias \in NamedAliases(u))
    /\ [][\A t \in Tasks :
             (/\ task[t].pc = "idle"
              /\ task'[t].op \in FileOps \cup {"run"}
              /\ \A u \in Tasks : InOperation(u) => task'[t].alias \notin NamedAliases(u))
             => task'[t].pc # "lock_wait"]_vars

\* a run and a file operation execute at the same time on different aliases
C25_Witness ==
    \E t, u \in Tasks :
        /\ task[t].op = "run" /\ task[t].pc = "run_exec"
        /\ task[u].op \in FileOps /\ task[u].pc = "file_io"
        /\ task[t].alias # task[u].alias
        /\ alias_locks[task[t].alias] /\ alias_locks[task[u].alias]


\* the exit-code suffix of execute
ExitSuffix(exit_code) ==
    IF exit_code # 0 THEN "\n\n[Exit Code: " \o ToString(exit_code) \o "]" ELSE ""

\* C26: what execute returns is the combined STDOUT/STDERR text followed by
\* the exit-code suffix when the exit code is not 0; a combined text of more
\* than 4000 characters is replaced by its first 4000 characters and the
\* truncation marker, so that the result is never longer than 4000
\* characters, the marker and the suffix.
C26_ExecuteOutputBounded ==
    [][\A t \in Tasks :
          (/\ task[t].pc = "run_exec"
           /\ task'[t].pc = "done"
           /\ task'[t].result # <<>>)
          => LET res == task'[t].result
                 combined == final_output(res[1], res[2])
                 marker == "\n... [Output truncated]"
             IN /\ Len(combined) > 4000
                   => task'[t].out = SubSeq(combined, 1, 4000) \o marker
                                         \o ExitSuffix(res[3])
                /\ Len(combined) <= 4000
                   => task'[t].out = combined \o ExitSuffix(res[3])
                /\ Len(task'[t].out) <= 4000 + Len(marker) + Len(ExitSuffix(res[3]))]_vars

\* execute has returned a text cut at 4000 characters, with the marker and
\* the suffix of exit code 127
C26_Witness ==
    \E t \in Tasks :
        /\ task[t].pc = "done" /\ task[t].op = "run" /\ task[t].res = "ok"
        /\ Len(task[t].out) = 4000 + Len("\n... [Output truncated]") + Len(ExitSuffix(127))


\* C27: every alias that has a live handle has cached credentials.
C27_LiveHandleHasCredentials ==
    \A a \in Aliases : connections[a] = 1 => credentials[a] # NoCreds


\* C28: a handle is recorded for an alias only when the table holds no live
\* handle for it: the earlier handle has been closed or removed, so that no
\* open handle is overwritten.
C28_OneLiveHandlePerAlias ==
    [][\A t \in Tasks :
          (task[t].pc = "ci_connect" /\ ConnectAnswered(t, TRUE))
          => connections[task[t].stack[Len(task[t].stack)].alias] # 1]_vars


\* this step is taken by task t inside "async with self._lock" of connect or
\* disconnect, the step that enters it included
ActsUnderTableLock(t) ==
    /\ task'[t] # task[t]
    /\ \/ task[t].pc = "idle" /\ task'[t].op \in {"connect", "disconnect", "disconnect_all"}
       \/ /\ task[t].op \in {"connect", "disconnect", "disconnect_all"}
          /\ task[t].pc \notin {"idle", "done"}

\* C29: every step that changes the connection table, the credential cache or
\* the primary alias is taken by a task that holds the table lock.
C29_TableChangesUnderTableLock ==
    [][(\/ connections' # connections
        \/ credentials' # credentials
        \/ primary_alias' # primary_alias)
       => \E t \in Tasks : ActsUnderTableLock(t)]_vars


\* C30: every step that changes the tracked cwd of an alias is taken by a task
\* that holds the lock of that alias.
C30_CwdWrittenUnderAliasLock ==
    [][\A a \in Aliases :
          cwds'[a] # cwds[a]
          => \E t \in Tasks : task'[t] # task[t] /\ HoldsAliasLock(t, a)]_vars


\* the texts conn.run answers a run with in Spec
RunStdouts == {<<>>} \cup {shell_stdout(<<>>, dir) : dir \in HomeDirs \cup {<<>>}}

\* stdout holds the sentinel
HasSentinel(stdout) == \E i \in 1..Len(stdout) : stdout[i] = cwd_delimiter

\* C31: a run that returns never makes a tracked cwd empty, and leaves the
\* tracked cwd of its alias as it was when the output holds no sentinel or
\* nothing but whitespace after the sentinel.
C31_RunKeepsCwdOnEmptyAnswer ==
    [][\A t \in Tasks, stdout \in RunStdouts :
          (task[t].pc = "run_exec" /\ RunAnswered(t, "ok", stdout))
          => (/\ cwds'[task[t].alias] = <<>> => cwds[task[t].alias] = <<>>
              /\ (~HasSentinel(stdout) \/ stdout = shell_stdout(<<>>, <<>>))
                 => cwds'[task[t].alias] = cwds[task[t].alias])]_vars

\* a run has returned on an alias whose tracked cwd is the directory of its
\* connect
C31_Witness ==
    \E t \in Tasks :
        /\ task[t].pc = "done" /\ task[t].op = "run" /\ task[t].res = "ok"
        /\ task[t].execs = 1
        /\ cwds[task[t].alias] = <<"/", "a">>

\* stop() is closing the managers of the store, which it does under the store lock
StopHoldsLock == \E c \in Callers : caller[c].pc = "stop_disconnecting"

\* C32: while a reaper awaits the disconnect of a manager it has evicted, the
\* store lock is not held on its behalf: unless stop() is clearing the
\* store, the lock is free and a get() for any key returns without waiting.
C32_ReaperDisconnectsOutsideLock ==
    [][\A r \in Reapers :
          (reaper[r].pc = "disconnecting" /\ ~StopHoldsLock)
          => (/\ ~store_lock
              /\ \A c \in Callers, key \in Keys :
                     Get(c, key) => caller'[c].pc = "done")]_vars

\* the reaper awaits the disconnect of the manager it has evicted, the store
\* lock is free, and a get() at the time of the sweep has returned the manager
\* of another key
C32_Witness ==
    \E r \in Reapers, c \in Callers, i \in 1..Len(sessions) :
        /\ reaper[r].pc = "disconnecting"
        /\ managers[reaper[r].manager].conn # 0
        /\ caller[c].pc = "done" /\ caller[c].op = "get"
        /\ sessions[i].key = caller[c].key
        /\ sessions[i].manager # reaper[r].manager
        /\ sessions[i].last_accessed >= reaper[r].now0
        /\ ~store_lock

\* reaper r ends a sweep: _reap returns to _cleanup_loop
SweepEnds(r) ==
    /\ ~reaper[r].cancel
    /\ \/ ReaperWake(r)
       \/ ReaperAcquire(r)
       \/ \E ok \in BOOLEAN : ReaperDisconnected(r, ok)
    /\ reaper'[r].pc \in {"sleeping", "done"}

\* the seconds left to the entries of ss at time t
TimesLeft(ss, t) == {timeout - (t - ss[i].last_accessed) : i \in 1..Len(ss)}

\* x is the time to the first expiry among ss seen from t, with or without
\* the margin, between the two bounds; the upper bound when ss is empty
SleepMatches(x, ss, t) ==
    IF ss = <<>> THEN x = max_sleep
    ELSE /\ x # max_sleep
         /\ \E margin \in {0, expiry_margin} :
                x = Max(min_sleep,
                        Min(margin + (CHOOSE l \in TimesLeft(ss, t) :
                                          \A k \in TimesLeft(ss, t) : l <= k),
                            max_sleep))

\* C33: when a sweep ends, the next sleep is the time to the first expiry among
\* the entries left in the store, seen from the clock the sweep read or from
\* the clock at its end, kept between 5 and 60, and it is 60 exactly when the
\* store is empty.
C33_SleepFromSurvivors ==
    [][\A r \in Reapers :
          SweepEnds(r)
          => \/ SleepMatches(next_sleep', sessions', reaper[r].now0)
             \/ SleepMatches(next_sleep', sessions', now)]_vars

\* manager m is the manager of an entry of ss
InStore(ss, m) == \E i \in 1..Len(ss) : ss[i].manager = m

\* C34: when stop() cancels a reaper that awaits the disconnect of a manager
\* it has evicted, the manager is not left outside the store with a handle:
\* its disconnect has set the handle to None, or stop() still finds it.
C34_EvictedManagerClosed ==
    [][\A r \in Reapers :
          (reaper[r].pc = "disconnecting" /\ ReaperCancelled(r))
          => \/ managers'[reaper[r].manager].conn = 0
             \/ InStore(sessions', reaper[r].manager)]_vars

\* C35: a step that releases the lock of an alias is taken by the task that
\* had acquired it, and when every task is outside its operation no alias
\* lock is held.
C35_ReleasesOwnLocks ==
    [][/\ \A a \in Aliases, t \in Tasks :
             (alias_locks[a] /\ ~alias_locks'[a] /\ task'[t] # task[t])
             => HoldsAliasLock(t, a)
       /\ (\A t \in Tasks : task'[t].pc \in {"idle", "done"})
             => \A a \in Aliases : ~alias_locks'[a]]_vars

\* the alias reached from a by following n via links of the credential cache,
\* "None" where the chain ends before
RECURSIVE follow_via(_, _)
follow_via(a, n) ==
    IF n = 0 \/ a = "None" THEN a
    ELSE follow_via(IF credentials[a] = NoCreds THEN "None" ELSE credentials[a].via, n - 1)

\* C36: no alias reaches itself by following the via links of the credential
\* cache.
C36_JumpRelationAcyclic ==
    \A a \in Aliases : \A n \in 1..Cardinality(Aliases) : follow_via(a, n) # a

\* C37: the primary alias is None or an alias with cached credentials.
C37_PrimaryHasCredentials ==
    primary_alias # "None" => credentials[primary_alias] # NoCreds

\* C38: when the disconnect of an evicted manager fails, the manager stays out
\* of the store, every other key of the sweep that is still expired is
\* removed in the same step or is still to be processed by the sweep, and
\* the reaper task goes on while the store is started.
C38_ReaperSurvivesDisconnectFailure ==
    [][\A r \in Reapers :
          (reaper[r].pc = "disconnecting" /\ ReaperDisconnected(r, FALSE))
          => (/\ ~InStore(sessions', reaper[r].manager)
              /\ \A i \in 1..Len(reaper[r].to_remove) :
                     LET key == reaper[r].to_remove[i]
                     IN (/\ has_key(sessions', key)
                         /\ still_expired(reaper[r].now0, entry_of(sessions', key)))
                        => (/\ reaper'[r].pc \in {"recheck_wait", "disconnecting"}
                            /\ reaper'[r].now0 = reaper[r].now0
                            /\ \E j \in 1..Len(reaper'[r].to_remove) :
                                   reaper'[r].to_remove[j] = key)
              /\ running => reaper'[r].pc \in {"sleeping", "recheck_wait",
                                                "disconnecting"})]_vars

\* the disconnect of the first evicted manager has failed and the same sweep
\* of the only reaper is disconnecting the second one
C38_Witness ==
    \E r \in Reapers, m \in Managers :
        /\ \A q \in Reapers \ {r} : reaper[q].pc = "none"
        /\ reaper[r].pc = "disconnecting" /\ ~reaper[r].cancel
        /\ reaper[r].manager # m
        /\ managers[m].made /\ managers[m].conn = 2 /\ ~managers[m].locked
        /\ ~InStore(sessions, m)

\* this step ends the reconnect that task t makes after its first attempt
\* lost the connection: the pwd of the new session is answered
RetryReconnects(t) ==
    /\ task[t].op \in {"run"} \cup FileOps
    /\ task[t].cont = "retry"
    /\ task[t].pc = "ci_pwd"
    /\ cwds[task[t].alias] \in Dirs
    /\ task'[t] # task[t]
    /\ connections'[task[t].alias] = 1

\* C39: the reconnect made for the retry of a run or a file operation on an
\* alias with a tracked cwd leaves that cwd as it was at the first attempt.
C39_ReconnectKeepsCwd ==
    [][\A t \in Tasks :
          RetryReconnects(t) => cwds'[task[t].alias] = cwds[task[t].alias]]_vars

\* the components of a path
components(s) == SelectSeq(split_slash(s, <<>>, <<>>), LAMBDA c : c # <<>>)

\* p is root or a descendant of root: the components of root begin those of p
is_within(root, p) ==
    LET rc == components(root)
        pc == components(p)
    IN Len(rc) <= Len(pc) /\ SubSeq(pc, 1, Len(rc)) = rc

\* C40: every path the confinement check accepts resolves to the root or to a
\* descendant of the root, for every root, working directory and path.
C40_AcceptedPathsInsideRoot ==
    \A t \in Tasks :
        (task[t].op = "validate_path" /\ task[t].res = "ok")
        => is_within(task[t].result[1], task[t].result[4])

====
